---- MODULE Spec2Model ----
(***************************************************************************)
(* Volume-spike retracement screener: the signal engine                    *)
(* (src/screener/signal_generator.py), the intraday scan that drives it    *)
(* (scripts/run_intraday.py) and the backtest replay                       *)
(* (src/backtest/strategy.py).                                             *)
(*                                                                         *)
(* Prices are integers counted in ticks of 0.01 currency unit, so that     *)
(* round(x, 2) is a rounding to whole ticks.  Values that the code         *)
(* computes with a percentage are carried in hundredths of a tick (the     *)
(* operators whose name ends in 100) and are exact.                        *)
(*                                                                         *)
(* The indicator columns EMA, ATR and MFI are computed by the ta / pandas  *)
(* libraries, which are not part of the repository: every bar of a fetched *)
(* frame carries the values (ema, atr, mfi) that the library will return   *)
(* for it, NaN included, and enrich() copies them into the columns.        *)
(***************************************************************************)
EXTENDS Integers, Sequences, FiniteSets, TLC

\* ------------------------------------------------------------------ bounds
MaxRuns == 3
MaxDate == 2

\* ---------------------------------------------------------- configuration
RETRACE_PCT == 3
MFI_MIN == 20
SL_PCT == 5
\* TRAILING_STOP_PCT = 2.5, carried in tenths of a percent
TRAILING_STOP_PCT_X10 == 25
MIN_PRICE == 10000
TP_MODE == 2

BREAKOUT == 1
MA_BREAKDOWN == 2
TRAILING == 3
TPModes == {BREAKOUT, MA_BREAKDOWN, TRAILING}

\* float('nan') and Python's None
NaN == -999999
None == -999998

MaxKeepFirst(a, b) == a

Max(a, b) == IF b > a THEN b ELSE a
Abs(a) == IF a < 0 THEN 0 - a ELSE a

\* round(x, 2) of a value given in hundredths of a tick: the nearest whole
\* tick, ties to the even one.
Round2(x100) ==
    LET q == x100 \div 100
        r == x100 % 100
    IN  IF r < 50 THEN q
        ELSE IF r > 50 THEN q + 1
        ELSE IF q % 2 = 0 THEN q ELSE q + 1

\* ------------------------------------------------------------ data classes
NoSpike ==
    [ticker |-> "", date |-> None, close |-> None, prev_close |-> None, high |-> None]

SpikeEvent(ticker, date, close, prev_close, high) ==
    [ticker |-> ticker, date |-> date, close |-> close,
     prev_close |-> prev_close, high |-> high]

MkSignal(ticker, signal_type, date, price, spike, entry_price, sl_price, tp_price) ==
    [ticker |-> ticker, signal_type |-> signal_type, date |-> date,
     price |-> price, spike_event |-> spike, entry_price |-> entry_price,
     sl_price |-> sl_price, tp_price |-> tp_price]

NoSignal == MkSignal("", "NONE", None, None, NoSpike, None, None, None)

ActivePosition(ticker, entry_date, entry_price, spike, sl_price, tp_price, highest) ==
    [ticker |-> ticker, entry_date |-> entry_date, entry_price |-> entry_price,
     spike_event |-> spike, sl_price |-> sl_price, tp_price |-> tp_price,
     highest_since_entry |-> highest]

\* --------------------------------------------------------------- enrich()
\* A fetched frame is a sequence of bars [date, Close, ema, atr, mfi] in date
\* order.  enrich adds the columns EMA, ATR, MFI and prev_EMA = EMA.shift(1);
\* it adds no prev_close column.
enrich(df) ==
    [i \in 1..Len(df) |->
        [date |-> df[i].date, Close |-> df[i].Close,
         EMA |-> df[i].ema, ATR |-> df[i].atr, MFI |-> df[i].mfi,
         prev_EMA |-> IF i = 1 THEN NaN ELSE df[i - 1].ema]]

\* row.get(col, default) on an enriched row
RowGetFillDefault(row, col, default) ==
    IF col \in DOMAIN row /\ row[col] # NaN THEN row[col] ELSE default

RowGet(row, col, default) ==
    IF col \in DOMAIN row THEN row[col] ELSE default

\* ---------------------------------------------------------------- helpers
\* Result in hundredths of a tick.  max(pct_dist, nan) is pct_dist.
_adaptive_sl_min(pre_spike_close, atr, sl_pct, entry_price) ==
    LET pct_dist100 == pre_spike_close * sl_pct
        dist100 == IF atr = NaN THEN pct_dist100
                   ELSE IF atr * 100 < pct_dist100 THEN atr * 100 ELSE pct_dist100
        sl100 == pre_spike_close * 100 - dist100
    IN  IF entry_price # None /\ sl100 >= entry_price * 100
        THEN entry_price * (100 - sl_pct)
        ELSE sl100

_adaptive_sl(pre_spike_close, atr, sl_pct, entry_price) ==
    LET pct_dist100 == pre_spike_close * sl_pct
        dist100 == IF atr = NaN THEN pct_dist100 ELSE Max(pct_dist100, atr * 100)
        sl100 == pre_spike_close * 100 - dist100
    IN  IF entry_price # None /\ sl100 >= entry_price * 100
        THEN entry_price * (100 - sl_pct)
        ELSE sl100

_is_near_entry(current_close, pre_spike_close, retrace_pct) ==
    IF pre_spike_close <= 0 THEN FALSE
    ELSE Abs(current_close - pre_spike_close) * 100 <= retrace_pct * pre_spike_close

_ema_reclaim(row) ==
    /\ RowGet(row, "prev_EMA", NaN) # NaN
    /\ row.EMA # NaN
    /\ row.Close > row.EMA
    /\ RowGet(row, "prev_close", row.Close) <= RowGet(row, "prev_EMA", row.EMA)

\* ------------------------------------------------------------- public API
check_entry(df, spike) ==
    IF df = <<>> THEN NoSignal
    ELSE
      LET latest == df[Len(df)]
          date == latest.date
      IN  IF date <= spike.date THEN NoSignal
          ELSE
            LET near == _is_near_entry(latest.Close, spike.prev_close, RETRACE_PCT)
                reclaim == _ema_reclaim(latest)
                mfi == RowGet(latest, "MFI", 0)
                mfi_ok == mfi # NaN /\ mfi >= MFI_MIN
            IN  IF near /\ reclaim /\ mfi_ok
                THEN LET atr == RowGet(latest, "ATR", 0)
                         sl100 == _adaptive_sl(spike.prev_close, atr, SL_PCT, latest.Close)
                     IN  MkSignal(spike.ticker, "ENTRY", date, latest.Close, spike,
                                  latest.Close, Round2(sl100), Round2(spike.high * 100))
                ELSE NoSignal

\* line 186: the stop-loss test
StopLossHitStrict(close, pos) == close < pos.sl_price

StopLossHit(close, pos) == close <= pos.sl_price

\* line 200: the breakout test
BreakoutAbovePreSpike(close, spike) == close > spike.prev_close

Breakout(close, spike) == close > spike.high

\* lines 213 and 229: in_profit
InProfitOrEven(close, pos) == close >= pos.entry_price

InProfit(close, pos) == close > pos.entry_price

\* check_exit returns the signal and leaves the ratchet in pos: the result
\* is the pair [sig, pos].
\* a ratchet that also lifts the stop to the entry price once the peak is
\* above it
RatchetedLiftingStop(pos, highest) ==
    [pos EXCEPT !.highest_since_entry = highest,
                !.sl_price = IF highest > pos.entry_price
                             THEN Max(pos.sl_price, pos.entry_price)
                             ELSE pos.sl_price]

\* line 227: pos.highest_since_entry = ...
Ratcheted(pos, highest) == [pos EXCEPT !.highest_since_entry = highest]

check_exit(df, pos, tp_mode, trailing_x10) ==
    IF df = <<>> THEN [sig |-> NoSignal, pos |-> pos]
    ELSE
      LET latest == df[Len(df)]
          date == latest.date
          close == latest.Close
      IN  IF StopLossHit(close, pos)
          THEN [sig |-> MkSignal(pos.ticker, "STOP_LOSS", date, close, pos.spike_event,
                                 pos.entry_price, pos.sl_price, None),
                pos |-> pos]
          ELSE IF tp_mode = BREAKOUT
          THEN [sig |-> IF Breakout(close, pos.spike_event)
                        THEN MkSignal(pos.ticker, "TAKE_PROFIT", date, close,
                                      pos.spike_event, pos.entry_price, None,
                                      pos.spike_event.high)
                        ELSE NoSignal,
                pos |-> pos]
          ELSE IF tp_mode = MA_BREAKDOWN
          THEN LET in_profit == InProfit(close, pos)
                   ema == RowGet(latest, "EMA", close + 1)
                   below_ema == ema # NaN /\ close < ema
               IN  [sig |-> IF in_profit /\ below_ema
                            THEN MkSignal(pos.ticker, "TAKE_PROFIT", date, close,
                                          pos.spike_event, pos.entry_price, None, None)
                            ELSE NoSignal,
                    pos |-> pos]
          ELSE IF tp_mode = TRAILING
          THEN LET highest == Max(pos.highest_since_entry, close)
                   in_profit == InProfit(close, pos)
                   \* close < highest * (1 - trailing_pct / 100)
                   below_trail == close * 1000 < highest * (1000 - trailing_x10)
               IN  [sig |-> IF in_profit /\ below_trail
                            THEN MkSignal(pos.ticker, "TAKE_PROFIT", date, close,
                                          pos.spike_event, pos.entry_price, None, None)
                            ELSE NoSignal,
                    pos |-> Ratcheted(pos, highest)]
          ELSE [sig |-> NoSignal, pos |-> pos]

\* ======================================================================
\* The intraday scan (scripts/run_intraday.py)
\* ======================================================================
VARIABLES
    tp_mode,            \* config.TP_MODE
    active_positions,   \* table active_positions: a set of rows
    sent_signals,       \* table sent_signals: rows in id order
    pc,                 \* "idle" between runs, "scan" inside main()
    positions,          \* main's dict of loaded positions
    todo,               \* tickers main has still to go through
    today,              \* date of the latest daily bar
    runs,               \* number of runs started
    alerts,             \* every signal handed to send_signal_alert, in order
    ratchet,            \* per ticker: highest_since_entry left by the last
                        \* trailing evaluation of its open position
    lastEval,           \* what the last loop iteration of main did
    undelivered         \* the alerts for which send_signal_alert returned False

liveVars == <<tp_mode, active_positions, sent_signals, pc, positions, todo,
              today, runs, alerts, ratchet, lastEval, undelivered>>

\* The signal engine called directly (check_entry / check_exit)
VARIABLES
    e_mode,             \* tp_mode argument
    e_pos,              \* <<>> when FLAT, <<pos>> when IN_POSITION
    e_call,             \* the last call: its arguments and its result
    e_n                 \* number of calls made

engineVars == <<e_mode, e_pos, e_call, e_n>>

\* The backtest replay (VolumeSpikeRetracement under backtesting.Backtest)
VARIABLES
    bt_params,          \* the trial's strategy parameters
    bt_bar,             \* number of bars replayed
    bt_prev,            \* the previous bar: Close[-2] and ema_line[-2]
    bt_state,           \* _spike_close, _pre_spike_close, _spike_high, _highest
    bt_broker,          \* the pending order and the open trade
    bt_log              \* what the last call of next() did

btVars == <<bt_params, bt_bar, bt_prev, bt_state, bt_broker, bt_log>>

\* The spike detector and the indicator helpers applied to a bar series
VARIABLES
    s_df,               \* the daily bars of one ticker, in date order
    s_call              \* the last call on s_df and what it returned

seriesVars == <<s_df, s_call>>

Tickers == {"AAAA", "BBBB"}
TickerOrder == <<"AAAA", "BBBB">>

\* ---- the SQLite helpers
_load_positions(rows) ==
    [t \in {r.ticker : r \in rows} |->
        LET r == CHOOSE x \in rows : x.ticker = t
        IN  ActivePosition(r.ticker, r.entry_date, r.entry_price, r.spike_json,
                           r.sl_price, r.tp_price, r.highest)]

\* INSERT OR REPLACE on the primary key ticker
_save_position(rows, pos) ==
    {r \in rows : r.ticker # pos.ticker} \cup
    {[ticker |-> pos.ticker, entry_date |-> pos.entry_date,
      entry_price |-> pos.entry_price, sl_price |-> pos.sl_price,
      tp_price |-> pos.tp_price, spike_json |-> pos.spike_event,
      highest |-> pos.highest_since_entry]}

_remove_position(rows, ticker) == {r \in rows : r.ticker # ticker}

_already_sent_last_row(log, ticker, signal_type, date) ==
    /\ Len(log) > 0
    /\ log[Len(log)].ticker = ticker
    /\ log[Len(log)].signal_type = signal_type
    /\ log[Len(log)].date = date

_already_sent(log, ticker, signal_type, date) ==
    \E i \in 1..Len(log) :
        /\ log[i].ticker = ticker
        /\ log[i].signal_type = signal_type
        /\ log[i].date = date

\* a log that records the exits only
_mark_sent_exits(log, sig) ==
    IF sig.signal_type = "ENTRY" THEN log
    ELSE Append(log, [ticker |-> sig.ticker, signal_type |-> sig.signal_type,
                      date |-> sig.date, price |-> sig.price])

_mark_sent(log, sig) ==
    Append(log, [ticker |-> sig.ticker, signal_type |-> sig.signal_type,
                 date |-> sig.date, price |-> sig.price])

\* the alert goes out: the model keeps which signal it was
send_signal_alert(out, sig) ==
    Append(out, [ticker |-> sig.ticker, signal_type |-> sig.signal_type,
                 date |-> sig.date])

\* send_message: True when the post went through, False when the credentials
\* are missing or requests.post / raise_for_status raised; it never raises
SendResults == BOOLEAN

\* lines 194-195 and 214-215: main() calls send_signal_alert as a statement
\* and goes on to _mark_sent and the position change whatever it returned
ProceedsAfterSendIfOk(sent_ok) == sent_ok

ProceedsAfterSend(sent_ok) == TRUE

MaxFailures == 1

\* ---- what the market data provider can return
\* the first ticker moves over the whole price range, the second one trades
\* in a narrow range
LiveCloses(ticker) ==
    IF ticker = "AAAA" THEN {9400, 9700, 10000, 10300} ELSE {9400, 9700}
LiveEMAs(ticker) == IF ticker = "AAAA" THEN {9600, 10250} ELSE {9600}
LiveMFIs(ticker) == IF ticker = "AAAA" THEN {10, 50} ELSE {50}
LiveATRs == {600}
LivePrevCloses == {10000}

\* fetch_daily_ohlcv: an empty frame, or bars ending at the current date
LiveFrames(ticker, date) ==
    {<<>>} \cup
    {<<[date |-> date - 1, Close |-> pc0, ema |-> pe, atr |-> 0, mfi |-> NaN],
       [date |-> date, Close |-> c, ema |-> e, atr |-> a, mfi |-> m]>> :
        <<pc0, pe, c, e, a, m>> \in
            LivePrevCloses \X {NaN, 10300} \X LiveCloses(ticker) \X LiveEMAs(ticker)
            \X LiveATRs \X LiveMFIs(ticker)}

\* the frames of the scans with a failing sink: the latest bar closes at the
\* stop or just inside the entry zone
SinkFrames(ticker, date) ==
    {df \in LiveFrames(ticker, date) :
        df # <<>> => /\ df[2].Close \in {9400, 9700}
                     /\ df[1].ema = 10300 /\ df[2].ema = 9600 /\ df[2].mfi = 50}

\* the latest spike detect_spikes finds for the ticker within the cutoff,
\* if any: a bar that closed at or above MIN_PRICE and above its previous close
LiveSpikes(ticker, date) ==
    {NoSpike} \cup
    {SpikeEvent(ticker, d, MIN_PRICE + 100, MIN_PRICE, MIN_PRICE + 100) :
        d \in {date - 1, date}}

NoEval ==
    [ticker |-> "", date |-> None, monitored |-> FALSE, hadPosition |-> FALSE,
     entryWould |-> FALSE, entryEvaluated |-> FALSE, entrySig |-> "NONE",
     entrySent |-> FALSE, exitEvaluated |-> FALSE, exitSig |-> "NONE",
     exitSent |-> FALSE, stored |-> FALSE, prevH |-> NaN, hLoaded |-> NaN,
     hAfter |-> NaN, created |-> FALSE]

LiveInit ==
    /\ tp_mode \in TPModes
    /\ active_positions = {}
    /\ sent_signals = <<>>
    /\ pc = "idle"
    /\ positions = <<>>
    /\ todo = <<>>
    /\ today = 1
    /\ runs = 0
    /\ alerts = <<>>
    /\ ratchet = [t \in Tickers |-> NaN]
    /\ lastEval = NoEval
    /\ undelivered = {}

NoCall ==
    [op |-> "none", row |-> <<>>, prev_close |-> None, spike |-> NoSpike,
     pos |-> <<>>, sig |-> NoSignal, trailing_x10 |-> None, pos_after |-> <<>>]

EngineIdle ==
    /\ e_mode = BREAKOUT
    /\ e_pos = <<>>
    /\ e_call = NoCall
    /\ e_n = 0

LiveIdle ==
    /\ tp_mode = BREAKOUT
    /\ active_positions = {}
    /\ sent_signals = <<>>
    /\ pc = "idle"
    /\ positions = <<>>
    /\ todo = <<>>
    /\ today = 1
    /\ runs = 0
    /\ alerts = <<>>
    /\ ratchet = [t \in Tickers |-> NaN]
    /\ lastEval = NoEval
    /\ undelivered = {}

\* the scan as deployed: config.TP_MODE
SinkInit ==
    /\ tp_mode = TP_MODE
    /\ active_positions = {}
    /\ sent_signals = <<>>
    /\ pc = "idle"
    /\ positions = <<>>
    /\ todo = <<>>
    /\ today = 1
    /\ runs = 0
    /\ alerts = <<>>
    /\ ratchet = [t \in Tickers |-> NaN]
    /\ lastEval = NoEval
    /\ undelivered = {}

\* main(), up to the signal loop: open the database and load the positions.
\* A run sees the bar of the same day as the previous run or of a later day.
StartRun ==
    /\ pc = "idle"
    /\ runs < MaxRuns
    /\ \E d \in {today, today + 1} :
          /\ d <= MaxDate
          /\ today' = d
    /\ runs' = runs + 1
    /\ positions' = _load_positions(active_positions)
    /\ todo' = TickerOrder
    /\ pc' = "scan"
    /\ UNCHANGED <<tp_mode, active_positions, sent_signals, alerts, ratchet, lastEval,
                   undelivered>>
    /\ UNCHANGED <<engineVars, btVars, seriesVars>>

\* lines 196-204: the position main() builds from an ENTRY signal;
\* `sig.sl_price or 0` turns a stop of 0.0 into 0
OpenPosition(ticker, sig, spike) ==
    ActivePosition(ticker, sig.date, sig.price, spike,
                   IF sig.sl_price = 0 THEN 0 ELSE sig.sl_price,
                   sig.tp_price, sig.price)

\* line 189: the entry check is made for spike tickers without open position
EntryGuardSpikeOnly(ticker, spike, posDict) == spike # NoSpike

EntryGuard(ticker, spike, posDict) ==
    spike # NoSpike /\ ticker \notin DOMAIN posDict

\* lines 163-180: the tickers the signal loop looks at
Monitored(s, ticker, df, spike) ==
    df # <<>> /\ (spike # NoSpike \/ ticker \in DOMAIN s.dict)

EvalEntry(s, ticker, df, spike) ==
    Monitored(s, ticker, df, spike) /\ EntryGuard(ticker, spike, s.dict)

\* lines 191-206: the entry alert sigE (NoSignal when none), the send that
\* returned okE, and every store after it
EntryEffect(s, ticker, spike, sigE, okE) ==
    LET sendE == sigE # NoSignal /\ ~_already_sent(s.sent, ticker, "ENTRY", sigE.date)
        goE == sendE /\ ProceedsAfterSend(okE)
        newPos == OpenPosition(ticker, sigE, spike)
    IN  [sig |-> sigE,
         send |-> sendE,
         alerts |-> IF sendE THEN send_signal_alert(s.alerts, sigE) ELSE s.alerts,
         undelivered |-> IF sendE /\ ~okE
                         THEN s.undelivered \cup {send_signal_alert(<<>>, sigE)[1]}
                         ELSE s.undelivered,
         sent |-> IF goE THEN _mark_sent(s.sent, sigE) ELSE s.sent,
         rows |-> IF goE THEN _save_position(s.rows, newPos) ELSE s.rows,
         dict |-> IF goE
                  THEN [t \in DOMAIN s.dict \cup {ticker} |->
                           IF t = ticker THEN newPos ELSE s.dict[t]]
                  ELSE s.dict,
         ratchet |-> IF goE THEN [s.ratchet EXCEPT ![ticker] = NaN] ELSE s.ratchet]

\* line 209: the exit check is made for every ticker in the dict, after the
\* entry part e
EvalExit(s, ticker, df, spike, e) ==
    Monitored(s, ticker, df, spike) /\ ticker \in DOMAIN e.dict

\* lines 211-216: the result res of check_exit, the send that returned okX,
\* and every store after it
ExitEffect(ticker, e, evalExit, res, okX) ==
    LET sigX == res.sig
        sendX == sigX # NoSignal
                 /\ ~_already_sent(e.sent, ticker, sigX.signal_type, sigX.date)
        goX == sendX /\ ProceedsAfterSend(okX)
        trailed == evalExit /\ tp_mode = TRAILING /\ sigX.signal_type # "STOP_LOSS"
    IN  [sig |-> sigX,
         send |-> sendX,
         trailed |-> trailed,
         alerts |-> IF sendX THEN send_signal_alert(e.alerts, sigX) ELSE e.alerts,
         undelivered |-> IF sendX /\ ~okX
                         THEN e.undelivered \cup {send_signal_alert(<<>>, sigX)[1]}
                         ELSE e.undelivered,
         sent |-> IF goX THEN _mark_sent(e.sent, sigX) ELSE e.sent,
         rows |-> IF goX THEN _remove_position(e.rows, ticker) ELSE e.rows,
         dict |-> IF evalExit THEN [e.dict EXCEPT ![ticker] = res.pos] ELSE e.dict,
         ratchet |-> IF goX THEN [e.ratchet EXCEPT ![ticker] = NaN]
                     ELSE IF trailed
                     THEN [e.ratchet EXCEPT ![ticker] = res.pos.highest_since_entry]
                     ELSE e.ratchet]

\* the new value of every store, and what was done for the ticker, after the
\* entry part e and the exit part x
ScanResult(s, ticker, df, spike, e, res, x) ==
    [rows |-> x.rows, sent |-> x.sent, dict |-> x.dict, alerts |-> x.alerts,
     ratchet |-> x.ratchet, undelivered |-> x.undelivered,
     eval |-> [ticker |-> ticker,
               date |-> IF df = <<>> THEN None ELSE df[Len(df)].date,
               monitored |-> Monitored(s, ticker, df, spike),
               hadPosition |-> \E r \in s.rows : r.ticker = ticker,
               entryWould |-> /\ Monitored(s, ticker, df, spike)
                              /\ spike # NoSpike
                              /\ check_entry(enrich(df), spike) # NoSignal,
               entryEvaluated |-> EvalEntry(s, ticker, df, spike),
               entrySig |-> e.sig.signal_type,
               entrySent |-> e.send,
               exitEvaluated |-> EvalExit(s, ticker, df, spike, e),
               exitSig |-> x.sig.signal_type,
               exitSent |-> x.send,
               stored |-> \E r \in x.rows : r.ticker = ticker,
               prevH |-> IF x.trailed THEN e.ratchet[ticker] ELSE NaN,
               hLoaded |-> IF x.trailed THEN e.dict[ticker].highest_since_entry ELSE NaN,
               hAfter |-> IF x.trailed THEN res.pos.highest_since_entry ELSE NaN,
               created |-> /\ e.send
                           /\ \E r \in e.rows : /\ r.ticker = ticker
                                                /\ r.entry_date = e.sig.date
                           /\ ticker \in DOMAIN e.dict]]

ScanExit(s, ticker, df, spike, e, res, okX) ==
    ScanResult(s, ticker, df, spike, e, res,
               ExitEffect(ticker, e, EvalExit(s, ticker, df, spike, e), res, okX))

ScanAfterEntry(s, ticker, df, spike, e, okX) ==
    ScanExit(s, ticker, df, spike, e,
             IF EvalExit(s, ticker, df, spike, e)
             THEN check_exit(enrich(df), e.dict[ticker], tp_mode, TRAILING_STOP_PCT_X10)
             ELSE [sig |-> NoSignal, pos |-> NoSignal],
             okX)

\* One ticker of main(): the fetch, the spike lookup and the loop body of
\* the signal loop, on the stores s.  The result is the new value of every
\* store.
\* okE and okX are what send_signal_alert returns for the entry and the exit.
ScanOne(s, ticker, df, spike, okE, okX) ==
    ScanAfterEntry(s, ticker, df, spike,
                   EntryEffect(s, ticker, spike,
                               IF EvalEntry(s, ticker, df, spike)
                               THEN check_entry(enrich(df), spike)
                               ELSE NoSignal,
                               okE),
                   okX)

\* an empty frame that ended the run instead of the ticker
RemainingAbortOnEmpty(tickers, df) == IF df = <<>> THEN <<>> ELSE Tail(tickers)

\* lines 165-166 and 179: after any fetch, empty or not, main goes on with
\* the next ticker
Remaining(tickers, df) == Tail(tickers)

\* the tables, main's dict and what was handed to the sink
Stores ==
    [rows |-> active_positions, sent |-> sent_signals, dict |-> positions,
     alerts |-> alerts, ratchet |-> ratchet, undelivered |-> undelivered]

\* the loop body for the next ticker, given the frame the provider returned
\* and what the two sends returned
ScanStep(df, spike, okE, okX) ==
    LET r == ScanOne(Stores, Head(todo), df, spike, okE, okX)
    IN  /\ active_positions' = r.rows
        /\ undelivered' = r.undelivered
        /\ sent_signals' = r.sent
        /\ positions' = r.dict
        /\ alerts' = r.alerts
        /\ ratchet' = r.ratchet
        /\ lastEval' = r.eval
        /\ todo' = Remaining(todo, df)
        /\ UNCHANGED <<tp_mode, pc, today, runs>>
        /\ UNCHANGED <<engineVars, btVars, seriesVars>>

\* every alert is delivered
ScanTicker ==
    /\ pc = "scan"
    /\ todo # <<>>
    /\ \E df \in LiveFrames(Head(todo), today), spike \in LiveSpikes(Head(todo), today) :
          ScanStep(df, spike, TRUE, TRUE)

\* the sink may fail on any alert, MaxFailures times in all
SinkResults ==
    IF Cardinality(undelivered) < MaxFailures THEN SendResults ELSE {TRUE}

ScanTickerSink ==
    /\ pc = "scan"
    /\ todo # <<>>
    /\ \E df \in SinkFrames(Head(todo), today), spike \in LiveSpikes(Head(todo), today),
          okE \in SinkResults, okX \in SinkResults :
          ScanStep(df, spike, okE, okX)

\* line 167: detect_spikes raises for some ticker (a qualifying bar after
\* a close of 0).  Nothing catches it, so main() ends in the spike pass,
\* before the signal loop has looked at any ticker.
AbortRun ==
    /\ pc = "idle"
    /\ runs < MaxRuns
    /\ \E d \in {today, today + 1} :
          /\ d <= MaxDate
          /\ today' = d
    /\ runs' = runs + 1
    /\ UNCHANGED <<tp_mode, active_positions, sent_signals, pc, positions, todo,
                   alerts, ratchet, lastEval, undelivered>>
    /\ UNCHANGED <<engineVars, btVars, seriesVars>>

\* ---- a whole run as a function of what the provider returns
\* the outcome of detect_spikes that is an exception
DetectRaises == [NoSpike EXCEPT !.ticker = "ZeroDivisionError"]

\* per ticker: the fetched frame and what detect_spikes makes of it
RunInputs(ticker, date) ==
    {[df |-> df, spike |-> sp] :
        <<df, sp>> \in SinkFrames(ticker, date)
                       \X (LiveSpikes(ticker, date) \cup {DetectRaises})}

\* lines 185-216: the signal loop over the tickers in the given order
RECURSIVE SignalLoop(_, _, _)
SignalLoop(s, order, inp) ==
    IF order = <<>> THEN s
    ELSE LET r == ScanOne(s, Head(order), inp[Head(order)].df,
                          inp[Head(order)].spike, TRUE, TRUE)
         IN  SignalLoop([rows |-> r.rows, sent |-> r.sent, dict |-> r.dict,
                         alerts |-> r.alerts, ratchet |-> r.ratchet,
                         undelivered |-> r.undelivered],
                        Tail(order), inp)

\* main() from line 163: the spike pass over all tickers, which ends the
\* run when detect_spikes raises on a non-empty frame, then the signal loop
main_run(s, order, inp) ==
    IF \E i \in 1..Len(order) :
          inp[order[i]].df # <<>> /\ inp[order[i]].spike = DetectRaises
    THEN s
    ELSE SignalLoop(s, order, inp)

\* conn.close() at the end of main()
EndRun ==
    /\ pc = "scan"
    /\ todo = <<>>
    /\ pc' = "idle"
    /\ positions' = <<>>
    /\ UNCHANGED <<tp_mode, active_positions, sent_signals, todo, today, runs,
                   alerts, ratchet, lastEval, undelivered>>
    /\ UNCHANGED <<engineVars, btVars, seriesVars>>

\* ======================================================================
\* The signal engine on its own: check_entry while FLAT, check_exit while
\* IN_POSITION, for any spike, bar, position and TP mode
\* ======================================================================
MaxCalls == 2

EngineCloses == {5, 9400, 9700, 10030, 10300, 850000, 900000, 950000}
EngineATRs == {NaN, 0, 600, 5000}
EngineMFIs == {NaN, 10, 50}

\* two bars; the indicator values lie on either side of the closes
EntryFrames ==
    {<<[date |-> 1, Close |-> pc0, ema |-> pe, atr |-> 0, mfi |-> NaN],
       [date |-> 2, Close |-> c, ema |-> e, atr |-> a, mfi |-> m]>> :
        <<c, pc0, pe, e, a, m>> \in
            {<<c, c + dc, IF dpe = 0 THEN NaN ELSE c + dpe,
               IF de = 0 THEN NaN ELSE c + de, a, m>> :
                <<c, dc, dpe, de, a, m>> \in
                    EngineCloses \X {-3, 3} \X {-1, 0, 1} \X {-2, 0}
                    \X EngineATRs \X EngineMFIs}}

EngineSpikes ==
    {SpikeEvent("AAAA", d, Max(10100, p + 1), p, Max(10100, p + 1)) :
        <<d, p>> \in {1, 2} \X {-100, 0, 5, 10000, 10001, 910000}}

ExitFrames ==
    {<<[date |-> 3, Close |-> c, ema |-> IF de = 0 THEN NaN ELSE c + de,
        atr |-> 0, mfi |-> NaN]>> :
        <<c, de>> \in EngineCloses \X {-2, 0, 2}}

\* positions of any shape, also ones main() would not build
AnyPositions ==
    {ActivePosition("AAAA", 1, 10000, SpikeEvent("AAAA", 0, h, 9900, h), sl, None, hi) :
        <<h, sl, hi>> \in {9000, 10100} \X {9500, 10100} \X {10000, 10300}}
    \cup
    {ActivePosition("AAAA", 1, 900000, SpikeEvent("AAAA", 0, 995000, 910000, 995000),
                    864500, None, 990000)}

\* the trailing_pct argument, in tenths of a percent: the default
\* config.TRAILING_STOP_PCT or 3; it is read in TRAILING mode only
TrailingPcts(mode) ==
    IF mode = TRAILING THEN {TRAILING_STOP_PCT_X10, 30} ELSE {TRAILING_STOP_PCT_X10}

EngineInit ==
    /\ e_mode \in TPModes
    /\ e_pos \in {<<>>} \cup {<<p>> : p \in AnyPositions}
    /\ e_call = NoCall
    /\ e_n = 0

\* one entry check from the initial FLAT state
EngineEntry ==
    /\ e_pos = <<>>
    /\ e_call = NoCall
    /\ \E df \in EntryFrames, spike \in EngineSpikes :
          LET edf == enrich(df)
              sig == check_entry(edf, spike)
          IN  /\ e_call' = [op |-> "entry", row |-> edf[Len(edf)],
                            prev_close |-> df[Len(df) - 1].Close,
                            spike |-> spike, pos |-> <<>>, sig |-> sig,
                            trailing_x10 |-> None, pos_after |-> <<>>]
              /\ e_pos' = IF sig # NoSignal
                          THEN <<OpenPosition(spike.ticker, sig, spike)>>
                          ELSE <<>>
    /\ e_n' = e_n + 1
    /\ UNCHANGED e_mode
    /\ UNCHANGED <<liveVars, btVars, seriesVars>>

\* exit checks of the open position, bar after bar
EngineExit ==
    /\ e_pos # <<>>
    /\ e_n < MaxCalls
    /\ \E df \in ExitFrames, trailing_x10 \in TrailingPcts(e_mode) :
          LET edf == enrich(df)
              r == check_exit(edf, e_pos[1], e_mode, trailing_x10)
          IN  /\ e_call' = [op |-> "exit", row |-> edf[Len(edf)],
                            prev_close |-> None,
                            spike |-> e_pos[1].spike_event, pos |-> e_pos,
                            sig |-> r.sig, trailing_x10 |-> trailing_x10,
                            pos_after |-> <<r.pos>>]
              /\ e_pos' = IF r.sig # NoSignal THEN <<>> ELSE <<r.pos>>
    /\ e_n' = e_n + 1
    /\ UNCHANGED e_mode
    /\ UNCHANGED <<liveVars, btVars, seriesVars>>

\* ======================================================================
\* The backtest replay (src/backtest/strategy.py)
\* ======================================================================
MaxBars == 3

\* class defaults of VolumeSpikeRetracement; sl_pct and tp_mode are varied
\* per trial
BT_RVOL_THRESHOLD == 5
BT_RETRACE_PCT == 3
BT_TRAILING_PCT == 3
BT_MFI_MIN == 20
BT_PP_MIN_PCT == 50

BtParams ==
    {[rvol_threshold |-> BT_RVOL_THRESHOLD, retrace_pct |-> BT_RETRACE_PCT,
      sl_pct |-> sl, tp_mode |-> m, trailing_pct |-> BT_TRAILING_PCT,
      mfi_min |-> BT_MFI_MIN] : <<sl, m>> \in {2, 5} \X TPModes}

\* _price_position, in percent of the day's range; NaN on a zero range
_price_position(high, low, close) ==
    IF high = low THEN NaN ELSE ((close - low) * 100) \div (high - low)

BtCloses == {9700, 10000, 10200}

\* one bar of the series with the indicator values self.I() holds for it
BtBars ==
    {[Open |-> c + do, High |-> Max(c, c + do),
      Low |-> (IF do < 0 THEN c + do ELSE c) - drop,
      Close |-> c, rvol |-> rv, ema |-> c + de, atr |-> a, mfi |-> m] :
        <<c, do, drop, rv, de, a, m>> \in
            BtCloses \X {-100, 100} \X {0, 800} \X {NaN, 1, 6} \X {-50, 50}
            \X {NaN, 600} \X {NaN, 50}}

NoOrder == [kind |-> "none", sl100 |-> None]
NoTrade == [open |-> FALSE, entry_price |-> None, sl100 |-> None]

_reset ==
    [_spike_close |-> NaN, _pre_spike_close |-> NaN, _spike_high |-> NaN,
     _highest |-> 0]

\* the record of a call of next(): what it saw and what it did
NoBtLog ==
    [spiked |-> FALSE, bought |-> FALSE, sl100 |-> None, close |-> None,
     flat |-> TRUE, closed |-> FALSE, entry_price |-> None, ema |-> None,
     spike_high |-> None, spike_bar |-> FALSE, stopped |-> FALSE,
     stop100 |-> None]

BtIdle ==
    /\ bt_params = [rvol_threshold |-> BT_RVOL_THRESHOLD, retrace_pct |-> BT_RETRACE_PCT,
                    sl_pct |-> 2, tp_mode |-> BREAKOUT,
                    trailing_pct |-> BT_TRAILING_PCT, mfi_min |-> BT_MFI_MIN]
    /\ bt_bar = 0
    /\ bt_prev = [Close |-> 10000, ema |-> 10050]
    /\ bt_state = _reset
    /\ bt_broker = [order |-> NoOrder, trade |-> NoTrade]
    /\ bt_log = NoBtLog

\* init(): the state of a fresh strategy; the replay starts after a first bar
BtInit ==
    /\ bt_params \in BtParams
    /\ bt_bar = 0
    /\ bt_prev \in {[Close |-> c, ema |-> c + de] : <<c, de>> \in BtCloses \X {-50, 50}}
    /\ bt_state = _reset
    /\ bt_broker = [order |-> NoOrder, trade |-> NoTrade]
    /\ bt_log = NoBtLog

\* What Backtest does at the start of a bar, before next(): a market order
\* placed on the previous bar is filled at the Open, a close order closes the
\* trade at the Open, and a trade whose stop is reached by the Low is closed.
BrokerNext(broker, bar) ==
    LET filled == IF broker.order.kind = "buy"
                  THEN [open |-> TRUE, entry_price |-> bar.Open,
                        sl100 |-> broker.order.sl100]
                  ELSE IF broker.order.kind = "close" THEN NoTrade
                  ELSE broker.trade
        stopped == filled.open /\ bar.Low * 100 <= filled.sl100
    IN  [order |-> NoOrder, trade |-> IF stopped THEN NoTrade ELSE filled,
         stopped |-> stopped,
         stop100 |-> IF filled.open THEN filled.sl100 ELSE None]

\* line 114: `not self.position`
IsFlatAlways(broker) == TRUE

IsFlat(broker) == ~broker.trade.open

\* VolumeSpikeRetracement.next() on one bar.  The result is the new strategy
\* state, the order it placed and the record of what it did.
StrategyNext(st, broker, bar, prev, p) ==
    LET close == bar.Close
        prev_close == prev.Close
        is_green == close > bar.Open
        rvol == bar.rvol
        pp == _price_position(bar.High, bar.Low, bar.Close)
        ema_val == bar.ema
        prev_ema == prev.ema
        mfi_val == bar.mfi
        atr_val == bar.atr
        inPosition == ~IsFlat(broker)
        \* ---- flat: detect a new spike, then check the entry
        spike == /\ rvol # NaN /\ rvol >= p.rvol_threshold
                 /\ is_green
                 /\ close > prev_close
                 /\ pp # NaN /\ pp >= BT_PP_MIN_PCT
        st1 == IF spike
               THEN [st EXCEPT !._spike_close = close,
                               !._pre_spike_close = prev_close,
                               !._spike_high = bar.High]
               ELSE st
        pre == st1._pre_spike_close
        anchored == pre # NaN /\ pre > 0
        dist_ok == Abs(close - pre) * 100 <= p.retrace_pct * pre
        ema_reclaim == /\ ema_val # NaN /\ prev_ema # NaN
                       /\ close > ema_val /\ prev_close <= prev_ema
        mfi_ok == mfi_val # NaN /\ mfi_val >= p.mfi_min
        enter == anchored /\ dist_ok /\ ema_reclaim /\ mfi_ok
        pct_dist100 == pre * p.sl_pct
        atr_safe == IF atr_val # NaN THEN atr_val ELSE 0
        sl_dist100 == Max(pct_dist100, atr_safe * 100)
        sl0 == pre * 100 - sl_dist100
        sl_price100 == IF sl0 >= close * 100 THEN close * (100 - p.sl_pct) ELSE sl0
        \* ---- in position: ratchet, then the mode's take-profit
        highest == Max(st._highest, close)
        entry_price == broker.trade.entry_price
        tp == \/ p.tp_mode = 1 /\ st._spike_high # NaN /\ close > st._spike_high
              \/ p.tp_mode = 2 /\ close > entry_price
                    /\ ema_val # NaN /\ close < ema_val
              \/ p.tp_mode = 3 /\ close > entry_price
                    /\ close * 100 < highest * (100 - p.trailing_pct)
    IN  IF ~inPosition
        THEN [st |-> IF enter THEN [st1 EXCEPT !._highest = close] ELSE st1,
              order |-> IF enter THEN [kind |-> "buy", sl100 |-> sl_price100]
                        ELSE NoOrder,
              log |-> [spiked |-> spike, bought |-> enter,
                       sl100 |-> IF enter THEN sl_price100 ELSE None,
                       close |-> close, flat |-> ~broker.trade.open,
                       closed |-> FALSE,
                       entry_price |-> None, ema |-> None, spike_high |-> None,
                       spike_bar |-> spike, stopped |-> broker.stopped,
                       stop100 |-> broker.stop100]]
        ELSE [st |-> IF tp THEN _reset ELSE [st EXCEPT !._highest = highest],
              order |-> IF tp THEN [kind |-> "close", sl100 |-> None] ELSE NoOrder,
              log |-> [spiked |-> FALSE, bought |-> FALSE, sl100 |-> None,
                       close |-> close, flat |-> ~broker.trade.open,
                       closed |-> tp,
                       entry_price |-> entry_price, ema |-> ema_val,
                       spike_high |-> st._spike_high, spike_bar |-> spike,
                       stopped |-> broker.stopped, stop100 |-> broker.stop100]]

\* one bar of Backtest.run(): the broker's bookkeeping, then next()
BtBar ==
    /\ bt_bar < MaxBars
    /\ \E bar \in BtBars :
          LET b == BrokerNext(bt_broker, bar)
              r == StrategyNext(bt_state, b, bar, bt_prev, bt_params)
          IN  /\ bt_state' = r.st
              /\ bt_broker' = [order |-> r.order, trade |-> b.trade]
              /\ bt_log' = r.log
              /\ bt_prev' = [Close |-> bar.Close, ema |-> bar.ema]
    /\ bt_bar' = bt_bar + 1
    /\ UNCHANGED bt_params
    /\ UNCHANGED <<liveVars, engineVars, seriesVars>>

\* ======================================================================
\* The spike detector (src/screener/volume_spike.py) and the indicator
\* helpers of the replay (src/backtest/strategy.py) on a bar series
\*
\* Volume is counted in units of 10,000 shares, so that Volume * Close (in
\* ticks) is the day's transaction value in units of 100 currency.
\* ======================================================================
MaxQuiet == 14
MaxTail == 2

VOLUME_SMA_WINDOW == 10
RVOL_THRESHOLD == 4
\* MIN_AVG_TXN_VALUE = 1,000,000, in units of 100 currency
MIN_AVG_TXN_VALUE == 10000
\* PRICE_POSITION_MIN = 0.5, in percent
PRICE_POSITION_MIN_PCT == 50
\* the ATR and MFI windows self.I() is called with
BT_ATR_WINDOW == 14
BT_MFI_WINDOW == 14
\* vol_window: the smallest value the optimizer tries and the class default
BtVolWindows == {10, 20}

\* the float -inf
NegInf == -999997

RECURSIVE SumRange(_, _, _)
SumRange(col, lo, hi) == IF hi < lo THEN 0 ELSE col[hi] + SumRange(col, lo, hi - 1)

Column(df, name) == [t \in 1..Len(df) |-> df[t][name]]

\* Series.rolling(window): a value needs min_periods = window observations
RollingAvailableAny(t, window) == t >= 1

RollingAvailable(t, window) == t >= window

\* first index of the rolling window that ends at t
RollingFrom(t, window) == IF t > window THEN t - window + 1 ELSE 1

\* rolling(window).mean(), rounded down
RollingMean(col, window) ==
    [t \in 1..Len(col) |->
        IF ~RollingAvailable(t, window) THEN NaN
        ELSE SumRange(col, RollingFrom(t, window), t) \div (t - RollingFrom(t, window) + 1)]

\* ---- src/screener/volume_spike.py
\* volume / SMA(volume), in hundredths, rounded down; 0/0 is NaN and +-inf
\* is replaced by NaN
compute_rvol(volume, window) ==
    [t \in 1..Len(volume) |->
        IF ~RollingAvailable(t, window) THEN NaN
        ELSE LET s == SumRange(volume, RollingFrom(t, window), t)
                 n == t - RollingFrom(t, window) + 1
             IN  IF s = 0 THEN NaN ELSE (volume[t] * n * 100) \div s]

compute_avg_txn_value(df, window) ==
    RollingMean([t \in 1..Len(df) |-> df[t].Volume * df[t].Close], window)

\* (Close - Low) / (High - Low), in percent, rounded down
price_position(df) ==
    [t \in 1..Len(df) |->
        LET rng == df[t].High - df[t].Low
        IN  IF rng = 0 THEN NaN ELSE ((df[t].Close - df[t].Low) * 100) \div rng]

\* df["Close"].shift(1)
PrevCloseOwnOpen(df, t) == df[t].Open

PrevClose(df, t) == IF t = 1 THEN NaN ELSE df[t - 1].Close

\* line 86: the green candle
IsGreenOrDoji(bar) == bar.Close >= bar.Open

IsGreen(bar) == bar.Close > bar.Open

\* lines 82-89: the mask; a comparison with NaN is False
SpikeMask(df, t) ==
    LET avg_txn == compute_avg_txn_value(df, VOLUME_SMA_WINDOW)[t]
        rvol == compute_rvol(Column(df, "Volume"), VOLUME_SMA_WINDOW)[t]
        price_pos == price_position(df)[t]
        prev_close == PrevClose(df, t)
    IN  /\ df[t].Close >= MIN_PRICE
        /\ avg_txn # NaN /\ avg_txn >= MIN_AVG_TXN_VALUE
        /\ rvol # NaN /\ rvol >= RVOL_THRESHOLD * 100
        /\ IsGreen(df[t])
        /\ price_pos # NaN /\ price_pos >= PRICE_POSITION_MIN_PCT
        /\ prev_close # NaN /\ df[t].Close > prev_close

\* The result is [raised, events]: building the SpikeEvent of a masked bar
\* divides by float(row["prev_close"]) (lines 101-104), which raises
\* ZeroDivisionError when that is 0.
detect_spikes(df, ticker) ==
    IF df = <<>> \/ Len(df) < VOLUME_SMA_WINDOW + 1
    THEN [raised |-> FALSE, events |-> <<>>]
    ELSE
      LET idx == SelectSeq([t \in 1..Len(df) |-> t], LAMBDA t : SpikeMask(df, t))
      IN  IF \E i \in 1..Len(idx) : PrevClose(df, idx[i]) = 0
          THEN [raised |-> TRUE, events |-> <<>>]
          ELSE [raised |-> FALSE,
                events |-> [i \in 1..Len(idx) |->
                              SpikeEvent(ticker, df[idx[i]].date, df[idx[i]].Close,
                                         PrevClose(df, idx[i]), df[idx[i]].High)]]

\* ---- src/backtest/strategy.py
_sma(arr, window) == RollingMean(arr, window)

\* a window centred on the bar: it reads the bar after t
_rvol_centered(volume, window) ==
    [t \in 1..Len(volume) |->
        IF ~RollingAvailable(t, window) THEN NaN
        ELSE LET hi == IF t < Len(volume) THEN t + 1 ELSE t
                 s == SumRange(volume, RollingFrom(hi, window), hi)
                 n == hi - RollingFrom(hi, window) + 1
             IN  IF s = 0 THEN NaN ELSE (volume[t] * n * 100) \div s]

_rvol(volume, window) ==
    [t \in 1..Len(volume) |->
        IF ~RollingAvailable(t, window) THEN NaN
        ELSE LET s == SumRange(volume, RollingFrom(t, window), t)
                 n == t - RollingFrom(t, window) + 1
             IN  IF s = 0 THEN NaN ELSE (volume[t] * n * 100) \div s]

\* the true range; max(axis=1) skips the NaN of the first bar
TrueRange(df) ==
    [t \in 1..Len(df) |->
        IF t = 1 THEN df[t].High - df[t].Low
        ELSE LET prev_c == df[t - 1].Close
             IN  Max(df[t].High - df[t].Low,
                     Max(Abs(df[t].High - prev_c), Abs(df[t].Low - prev_c)))]

_atr(df, window) == RollingMean(TrueRange(df), window)

\* three times the typical price, and the money flow on that scale
TypicalPrice3(df, t) == df[t].High + df[t].Low + df[t].Close
PosFlow(df) ==
    [t \in 1..Len(df) |->
        IF t > 1 /\ TypicalPrice3(df, t) > TypicalPrice3(df, t - 1)
        THEN TypicalPrice3(df, t) * df[t].Volume ELSE 0]
NegFlow(df) ==
    [t \in 1..Len(df) |->
        IF t > 1 /\ TypicalPrice3(df, t) <= TypicalPrice3(df, t - 1)
        THEN TypicalPrice3(df, t) * df[t].Volume ELSE 0]

\* 100 - 100 / (1 + pos_mf / neg_mf), rounded down
MoneyFlowIndex(pos, neg) ==
    IF pos + neg = 0 THEN NegInf ELSE (100 * pos) \div (pos + neg)

\* without neg_mf.replace(0, np.nan): x / 0 is +-inf, 0 / 0 is NaN
_mfi_no_replace(df, window) ==
    [t \in 1..Len(df) |->
        IF ~RollingAvailable(t, window) THEN NaN
        ELSE LET pos == SumRange(PosFlow(df), RollingFrom(t, window), t)
                 neg == SumRange(NegFlow(df), RollingFrom(t, window), t)
             IN  IF neg = 0 THEN (IF pos = 0 THEN NaN ELSE 100)
                 ELSE MoneyFlowIndex(pos, neg)]

_mfi(df, window) ==
    [t \in 1..Len(df) |->
        IF ~RollingAvailable(t, window) THEN NaN
        ELSE LET pos == SumRange(PosFlow(df), RollingFrom(t, window), t)
                 neg == SumRange(NegFlow(df), RollingFrom(t, window), t)
             IN  IF neg = 0 THEN NaN ELSE MoneyFlowIndex(pos, neg)]

\* ---- the bar series
\* a quiet day at price q with volume v
QuietBar(q, v, i) ==
    [date |-> i, Open |-> q, High |-> q + 100, Low |-> q - 100, Close |-> q,
     Volume |-> v]

\* a day that follows a close of p: a rise of 300 that closes near the high
\* ("ok"), the same with the open at the close ("doji"), with a long upper
\* shadow ("low"), without range ("flat"), a day that only returns to p
\* ("down"), and a day that trades around 10300 whatever p was ("jump")
TailBar(kind, p, i) ==
    LET k == kind.k
        b == IF k = "jump" THEN 10000 ELSE p
    IN  [date |-> i,
         Open |-> IF k \in {"doji", "flat"} THEN b + 300
                  ELSE IF k = "down" THEN b - 300 ELSE b,
         High |-> IF k = "low" THEN b + 1000 ELSE IF k = "flat" THEN b + 300
                  ELSE IF k = "down" THEN b + 100 ELSE b + 400,
         Low |-> IF k = "flat" THEN b + 300 ELSE IF k = "down" THEN b - 400
                 ELSE b - 100,
         Close |-> IF k = "down" THEN b ELSE b + 300,
         Volume |-> kind.v]

TailKinds ==
    {[k |-> "ok", v |-> v] : v \in {1, 7, 10}} \cup
    {[k |-> x, v |-> 7] : x \in {"doji", "low", "flat", "down"}} \cup
    {[k |-> "jump", v |-> 10]}

QuietKinds ==
    {[q |-> 10000, v |-> 1], [q |-> 10000, v |-> 0], [q |-> 9000, v |-> 1],
     [q |-> 0, v |-> 1], [q |-> -100, v |-> 1]}

QuietLens == {0, VOLUME_SMA_WINDOW - 1, VOLUME_SMA_WINDOW, MaxQuiet}

RECURSIVE Extend(_, _)
Extend(df, kinds) ==
    IF kinds = <<>> THEN df
    ELSE Extend(Append(df, TailBar(Head(kinds),
                                   IF df = <<>> THEN 10000 ELSE df[Len(df)].Close,
                                   Len(df) + 1)),
                Tail(kinds))

\* what fetch_daily_ohlcv can return: quiet days followed by up to MaxTail
\* eventful ones
SeriesFrames ==
    {Extend([i \in 1..n |-> QuietBar(qk.q, qk.v, i)], tail) :
        <<n, qk, tail>> \in
            QuietLens \X QuietKinds
            \X UNION {[1..m -> TailKinds] : m \in 0..MaxTail}}

NoSeriesCall == [op |-> "none"]

SeriesIdle ==
    /\ s_df = <<>>
    /\ s_call = NoSeriesCall

SeriesInit ==
    /\ s_df \in SeriesFrames
    /\ s_call = NoSeriesCall

\* detect_spikes(df, ticker)
DetectSpikes ==
    /\ s_call' = [op |-> "detect", res |-> detect_spikes(s_df, "AAAA")]
    /\ UNCHANGED s_df
    /\ UNCHANGED <<liveVars, engineVars, btVars>>

\* the three indicator columns of the screener, as diagnose() computes them
Indicators ==
    /\ s_call' = [op |-> "indicators",
                  rvol |-> compute_rvol(Column(s_df, "Volume"), VOLUME_SMA_WINDOW),
                  avg_txn |-> compute_avg_txn_value(s_df, VOLUME_SMA_WINDOW),
                  price_pos |-> price_position(s_df)]
    /\ UNCHANGED s_df
    /\ UNCHANGED <<liveVars, engineVars, btVars>>

\* VolumeSpikeRetracement.init(): the indicator arrays of the replay, and
\* _sma over the same window
BtIndicators ==
    /\ \E w \in BtVolWindows :
          s_call' = [op |-> "bt_init", vol_window |-> w,
                     rvol |-> _rvol(Column(s_df, "Volume"), w),
                     sma |-> _sma(Column(s_df, "Volume"), w),
                     atr |-> _atr(s_df, BT_ATR_WINDOW),
                     mfi |-> _mfi(s_df, BT_MFI_WINDOW),
                     pp |-> [t \in 1..Len(s_df) |->
                               _price_position(s_df[t].High, s_df[t].Low,
                                               s_df[t].Close)]]
    /\ UNCHANGED s_df
    /\ UNCHANGED <<liveVars, engineVars, btVars>>

\* ---- the replay of a whole series
BT_EMA_PERIOD == 10
BT_SL_PCT == 3

\* pandas' ewm(span=window, adjust=False).mean(): seeded by the first value,
\* then e + 2 (x - e) / (window + 1); carried in thousandths of a tick
RECURSIVE EwmMean(_, _, _)
EwmMean(arr, window, t) ==
    IF t = 1 THEN arr[1] * 1000
    ELSE LET e == EwmMean(arr, window, t - 1)
         IN  e + (2 * (arr[t] * 1000 - e)) \div (window + 1)

\* the EMA line in ticks, rounded down
_ema(arr, window) ==
    [t \in 1..Len(arr) |-> EwmMean(arr, window, t) \div 1000]

\* retrace_pct of the replayed parameter sets, inside the optimizer's range
ReplayRetracePcts == {5}

\* the parameter sets of the replay: the class defaults, with the screener's
\* RVOL threshold beside the default one, the screener's volume window and
\* the three take-profit modes
ReplayParams ==
    {[rvol_threshold |-> rt, retrace_pct |-> rp, ema_period |-> BT_EMA_PERIOD,
      sl_pct |-> BT_SL_PCT, tp_mode |-> m, trailing_pct |-> BT_TRAILING_PCT,
      mfi_min |-> BT_MFI_MIN, vol_window |-> w] :
        <<rt, rp, m, w>> \in
            {RVOL_THRESHOLD, BT_RVOL_THRESHOLD} \X ReplayRetracePcts
            \X TPModes \X {VOLUME_SMA_WINDOW}}

\* the bars as next() reads them: the OHLC columns and the self.I() lines.
\* RVOL and MFI are only compared with whole numbers, so their whole part
\* is carried.
ReplayBars(df, p) ==
    LET rvol == _rvol(Column(df, "Volume"), p.vol_window)
        ema == _ema(Column(df, "Close"), p.ema_period)
        atr == _atr(df, BT_ATR_WINDOW)
        mfi == _mfi(df, BT_MFI_WINDOW)
    IN  [t \in 1..Len(df) |->
            [Open |-> df[t].Open, High |-> df[t].High, Low |-> df[t].Low,
             Close |-> df[t].Close,
             rvol |-> IF rvol[t] = NaN THEN NaN ELSE rvol[t] \div 100,
             ema |-> ema[t], atr |-> atr[t], mfi |-> mfi[t]]]

\* number of leading NaN of an indicator line (0 for a line without a value)
LeadingNaN(line) ==
    IF \A t \in 1..Len(line) : line[t] = NaN THEN 0
    ELSE (CHOOSE t \in 1..Len(line) :
              /\ line[t] # NaN
              /\ \A u \in 1..(t - 1) : line[u] = NaN) - 1

\* The bar of the first call of next().  Backtest.run() decides it: next()
\* always sees a previous bar, and the library may skip the bars on which
\* a declared indicator has no value yet.
FirstBars(df, p) ==
    LET bars == ReplayBars(df, p)
        pp == [t \in 1..Len(df) |->
                  _price_position(df[t].High, df[t].Low, df[t].Close)]
        lead == Max(Max(LeadingNaN(Column(bars, "rvol")),
                        LeadingNaN(Column(bars, "atr"))),
                    Max(LeadingNaN(Column(bars, "mfi")), LeadingNaN(pp)))
    IN  {2, 2 + lead}

NoBarLog == [called |-> FALSE]

\* Backtest.run() from bar t on: the broker's bookkeeping and next(), bar
\* after bar; the result is the record of every call
RECURSIVE ReplayFrom(_, _, _, _, _)
ReplayFrom(bars, p, t, st, broker) ==
    IF t > Len(bars) THEN <<>>
    ELSE LET b == BrokerNext(broker, bars[t])
             prev == IF t = 1 THEN bars[1] ELSE bars[t - 1]
             r == StrategyNext(st, b, bars[t],
                               [Close |-> prev.Close, ema |-> prev.ema], p)
         IN  <<[called |-> TRUE, log |-> r.log, state |-> r.st,
                in_trade |-> b.trade.open]>>
             \o ReplayFrom(bars, p, t + 1, r.st,
                           [order |-> r.order, trade |-> b.trade])

\* run_single(df, **p): the record of the replay, bar by bar
Replay(df, p, first) ==
    IF first > Len(df) THEN [t \in 1..Len(df) |-> NoBarLog]
    ELSE [t \in 1..(first - 1) |-> NoBarLog]
         \o ReplayFrom(ReplayBars(df, p), p, first, _reset,
                       [order |-> NoOrder, trade |-> NoTrade])

\* run_single() on a fetched series
ReplaySeries ==
    /\ s_call = NoSeriesCall
    /\ s_df # <<>>
    /\ \E p \in ReplayParams : \E first \in FirstBars(s_df, p) :
          s_call' = [op |-> "replay", p |-> p, first |-> first,
                     trace |-> Replay(s_df, p, first)]
    /\ UNCHANGED s_df
    /\ UNCHANGED <<liveVars, engineVars, btVars>>

\* ---- scripts/run_backtest.py
\* the ticker lists of the command line
TickerLists == {<<"AAAA">>, <<"AAAA", "BBBB">>, <<"BBBB", "AAAA">>}

\* what fetch_daily_ohlcv returns for the second ticker: nothing, or two
\* quiet days
OtherFrames == {<<>>, [i \in 1..2 |-> QuietBar(9000, 1, i)]}

\* the rows of a fetched frame; the frame has no ticker column, `of` only
\* remembers where a row came from
Rows(df, ticker) == [t \in 1..Len(df) |-> [of |-> ticker, bar |-> df[t]]]

\* sort_index() of two date-sorted runs of rows: rows of equal date come
\* out in either order (the default sort is not stable)
RECURSIVE MergeSet(_, _)
MergeSet(a, b) ==
    IF a = <<>> THEN {b}
    ELSE IF b = <<>> THEN {a}
    ELSE LET aFirst == {<<Head(a)>> \o m : m \in MergeSet(Tail(a), b)}
             bFirst == {<<Head(b)>> \o m : m \in MergeSet(a, Tail(b))}
         IN  IF Head(a).bar.date < Head(b).bar.date THEN aFirst
             ELSE IF Head(b).bar.date < Head(a).bar.date THEN bFirst
             ELSE aFirst \cup bFirst

\* pd.concat(frames).sort_index(): every outcome of the sort
RECURSIVE SortedConcat(_)
SortedConcat(frames) ==
    IF frames = <<>> THEN {<<>>}
    ELSE UNION {MergeSet(Head(frames), r) : r \in SortedConcat(Tail(frames))}

\* _fetch_and_concat(tickers): the frames of the tickers that have data;
\* without any the script exits
_fetch_and_concat(tickers, fetched) ==
    LET frames == SelectSeq([i \in 1..Len(tickers) |->
                                Rows(fetched[tickers[i]], tickers[i])],
                            LAMBDA f : f # <<>>)
    IN  IF frames = <<>> THEN {[exit |-> TRUE, df |-> <<>>]}
        ELSE {[exit |-> FALSE, df |-> d] : d \in SortedConcat(frames)}

\* main() of run_backtest.py up to the series it hands to the optimizer
FetchAndConcat ==
    /\ s_call = NoSeriesCall
    /\ \E tickers \in TickerLists : \E other \in OtherFrames :
          \E r \in _fetch_and_concat(tickers, [AAAA |-> s_df, BBBB |-> other]) :
              s_call' = [op |-> "concat", tickers |-> tickers, exit |-> r.exit,
                         df |-> r.df]
    /\ UNCHANGED s_df
    /\ UNCHANGED <<liveVars, engineVars, btVars>>

\* ---- the table active_positions, value by value (scripts/run_intraday.py)
\* Python numbers keep their type, a Timestamp its time zone.  The scan
\* above carries stored values decoded; here the columns hold what SQLite
\* and JSON hold.
PyFloat(v) == [ty |-> "float", v |-> v]
PyInt(v) == [ty |-> "int", v |-> v]
PyNone == [ty |-> "None", v |-> None]

\* pd.Timestamp of a daily bar: midnight of a day, naive or in the
\* exchange's zone (the index yfinance returns is either)
Timestamp(day, tz) == [day |-> day, tz |-> tz]

\* minutes east of UTC
UtcOffset(tz) == IF tz = "naive" THEN 0 ELSE 420

\* str(pd.Timestamp): date and time, and the UTC offset of an aware one
TimestampStrNoOffset(ts) == [date |-> ts.day, time |-> "00:00:00", offset |-> ""]

TimestampStr(ts) ==
    [date |-> ts.day, time |-> "00:00:00",
     offset |-> IF ts.tz = "naive" THEN "" ELSE "+07:00"]

\* pd.Timestamp(text): an offset in the text gives a fixed-offset zone
TimestampParse(text) ==
    Timestamp(text.date, IF text.offset = "" THEN "naive" ELSE text.offset)

\* json.dumps / json.loads of a number: ints and floats keep their kind, a
\* NaN is written as the token NaN and read back as a NaN
JsonNumber(x) ==
    IF x.v = NaN THEN [tok |-> "NaN"]
    ELSE [tok |-> x.ty, digits |-> x.v]

JsonParseNumber(j) ==
    IF j.tok = "NaN" THEN PyFloat(NaN)
    ELSE IF j.tok = "int" THEN PyInt(j.digits) ELSE PyFloat(j.digits)

SpikeNumberFields ==
    {"rvol", "close", "prev_close", "pct_change", "high", "low", "volume",
     "avg_txn_value"}

\* json.dumps(spike_dict), lines 102-113 and 120
spike_json(spike) ==
    [f \in {"ticker", "date"} \cup SpikeNumberFields |->
        IF f = "ticker" THEN spike.ticker
        ELSE IF f = "date" THEN TimestampStr(spike.date)
        ELSE JsonNumber(spike[f])]

\* SpikeEvent(**{**json.loads(r[5]), "date": pd.Timestamp(...)})
spike_of_json(j) ==
    [f \in DOMAIN j |->
        IF f = "ticker" THEN j.ticker
        ELSE IF f = "date" THEN TimestampParse(j.date)
        ELSE JsonParseNumber(j[f])]

\* a column of REAL affinity: None and NaN are stored as NULL, an int as
\* the float of the same value
SqlReal(x) ==
    IF x.ty = "None" \/ x.v = NaN THEN PyNone ELSE PyFloat(x.v)

\* _save_position: INSERT OR REPLACE of the row of pos.ticker
save_row(rows, pos) ==
    {r \in rows : r.ticker # pos.ticker} \cup
    {[ticker |-> pos.ticker, entry_date |-> TimestampStr(pos.entry_date),
      entry_price |-> SqlReal(pos.entry_price),
      sl_price |-> SqlReal(pos.sl_price), tp_price |-> SqlReal(pos.tp_price),
      spike_json |-> spike_json(pos.spike_event),
      highest |-> SqlReal(pos.highest_since_entry)]}

\* _load_positions: one ActivePosition per row
load_rows(rows) ==
    [t \in {r.ticker : r \in rows} |->
        LET r == CHOOSE x \in rows : x.ticker = t
        IN  ActivePosition(r.ticker, TimestampParse(r.entry_date), r.entry_price,
                           spike_of_json(r.spike_json), r.sl_price, r.tp_price,
                           r.highest)]

\* the time zones of the fetched index
StoreZones == {"naive", "Asia/Jakarta"}

\* a spike as detect_spikes builds it: float() and round() values, an
\* int() volume
StoreSpike(ticker, tz) ==
    [ticker |-> ticker, date |-> Timestamp(1, tz), rvol |-> PyFloat(526),
     close |-> PyFloat(10300), prev_close |-> PyFloat(10000),
     pct_change |-> PyFloat(300), high |-> PyFloat(10400),
     low |-> PyFloat(9900), volume |-> PyInt(100000),
     avg_txn_value |-> PyFloat(17400)]

\* the positions main() saves: sig.sl_price or 0 is the int 0 for a stop
\* of 0.0; tp_price is Optional
StorePositions ==
    {ActivePosition(t, Timestamp(2, tz), PyFloat(10250), StoreSpike(t, tz),
                    sl, tp, h) :
        <<t, tz, sl, tp, h>> \in
            Tickers \X StoreZones \X {PyFloat(9700), PyInt(0)}
            \X {PyNone, PyFloat(10400)} \X {PyFloat(10250), PyFloat(10500)}}

\* lines 205-206: the position is written and kept in the dict
StoreSave ==
    /\ \E pos \in StorePositions :
          /\ active_positions' = save_row(active_positions, pos)
          /\ positions' = [t \in DOMAIN positions \cup {pos.ticker} |->
                              IF t = pos.ticker THEN pos ELSE positions[t]]
    /\ s_call' = [op |-> "save"]
    /\ UNCHANGED <<tp_mode, sent_signals, pc, todo, today, runs, alerts,
                   ratchet, lastEval, undelivered>>
    /\ UNCHANGED s_df
    /\ UNCHANGED <<engineVars, btVars>>

\* line 154 of a later run: the table is read back
StoreLoad ==
    /\ s_call.op = "save"
    /\ s_call' = [op |-> "load", res |-> load_rows(active_positions)]
    /\ UNCHANGED s_df
    /\ UNCHANGED <<liveVars, engineVars, btVars>>

\* run_intraday.py line 170, and the default lookback_days of latest_spikes
CUTOFF_DAYS == 10

\* ---- src/screener/volume_spike.py: scan_all and latest_spikes
\* the events of one ticker with the rvol field of SpikeEvent (here in
\* hundredths, as compute_rvol gives it)
WithRvol(df, events) ==
    [i \in 1..Len(events) |->
        [rvol |-> compute_rvol(Column(df, "Volume"), VOLUME_SMA_WINDOW)[events[i].date],
         event |-> events[i]]]

\* list.sort(key=lambda e: e.rvol, reverse=True): the sort is stable, an
\* element goes behind those of equal rvol that came before it
RECURSIVE InsertByRvol(_, _)
InsertByRvol(sorted, x) ==
    IF sorted = <<>> THEN <<x>>
    ELSE IF Head(sorted).rvol >= x.rvol
         THEN <<Head(sorted)>> \o InsertByRvol(Tail(sorted), x)
         ELSE <<x>> \o sorted

RECURSIVE SortByRvol(_)
SortByRvol(list) ==
    IF list = <<>> THEN <<>>
    ELSE InsertByRvol(SortByRvol(SubSeq(list, 1, Len(list) - 1)), list[Len(list)])

\* a cutoff taken from the latest date of all the data
CutoffOfAll(data, df, lookback_days) ==
    LET last == {data[t][Len(data[t])].date : t \in {t \in DOMAIN data : data[t] # <<>>}}
    IN  (CHOOSE d \in last : \A o \in last : o <= d) - lookback_days

\* df.index.max() - pd.Timedelta(days=lookback_days)
Cutoff(data, df, lookback_days) == df[Len(df)].date - lookback_days

\* the loop over data.items(): [raised, list] after the tickers of `order`
RECURSIVE ScanLoop(_, _, _, _)
ScanLoop(data, order, lookback_days, acc) ==
    IF order = <<>> \/ acc.raised THEN acc
    ELSE LET df == data[Head(order)]
             res == detect_spikes(df, Head(order))
             all == WithRvol(df, res.events)
             kept == IF lookback_days = None THEN all
                     ELSE SelectSeq(all, LAMBDA e :
                              e.event.date >= Cutoff(data, df, lookback_days))
         IN  IF lookback_days # None /\ df = <<>>
             THEN ScanLoop(data, Tail(order), lookback_days, acc)
             ELSE IF res.raised THEN [raised |-> TRUE, list |-> <<>>]
             ELSE ScanLoop(data, Tail(order), lookback_days,
                           [raised |-> FALSE, list |-> acc.list \o kept])

\* scan_all(data): no cutoff
scan_all(data, order) ==
    LET r == ScanLoop(data, order, None, [raised |-> FALSE, list |-> <<>>])
    IN  [raised |-> r.raised, list |-> SortByRvol(r.list)]

\* latest_spikes(data, lookback_days=...)
latest_spikes(data, order, lookback_days) ==
    LET r == ScanLoop(data, order, lookback_days, [raised |-> FALSE, list |-> <<>>])
    IN  [raised |-> r.raised, list |-> SortByRvol(r.list)]

\* the frames of the second ticker: none, eleven bars that end in a spike,
\* twelve bars with two spikes
ScanOthers ==
    {<<>>,
     Extend([i \in 1..VOLUME_SMA_WINDOW |-> QuietBar(10000, 1, i)],
            <<[k |-> "ok", v |-> 7]>>),
     Extend([i \in 1..VOLUME_SMA_WINDOW |-> QuietBar(10000, 1, i)],
            <<[k |-> "ok", v |-> 7], [k |-> "ok", v |-> 10]>>)}

LookbackDays == {0, 1, CUTOFF_DAYS}

\* one call of scan_all or latest_spikes over a dict of one or two tickers
ScanAll ==
    /\ s_call = NoSeriesCall
    /\ \E order \in TickerLists, other \in ScanOthers :
          LET data == [AAAA |-> s_df, BBBB |-> other]
          IN  s_call' = [op |-> "scan_all", data |-> data, order |-> order,
                         res |-> scan_all(data, order)]
    /\ UNCHANGED s_df
    /\ UNCHANGED <<liveVars, engineVars, btVars>>

LatestSpikes ==
    /\ s_call = NoSeriesCall
    /\ \E order \in TickerLists, other \in ScanOthers, lookback_days \in LookbackDays :
          LET data == [AAAA |-> s_df, BBBB |-> other]
          IN  s_call' = [op |-> "latest_spikes", data |-> data, order |-> order,
                         lookback_days |-> lookback_days,
                         res |-> latest_spikes(data, order, lookback_days)]
    /\ UNCHANGED s_df
    /\ UNCHANGED <<liveVars, engineVars, btVars>>

\* ---- scripts/run_intraday.py: which tickers main() monitors
EventSet(events) == {events[i] : i \in 1..Len(events)}

\* a pass that takes the oldest event of the series
MonitoredSpikeOldest(df, ticker) ==
    LET res == detect_spikes(df, ticker)
    IN  IF res.raised \/ res.events = <<>> THEN {}
        ELSE LET oldest == CHOOSE e \in EventSet(res.events) :
                               \A o \in EventSet(res.events) : e.date <= o.date
             IN  IF oldest.date >= df[Len(df)].date - CUTOFF_DAYS
                 THEN {oldest} ELSE {}

\* main(), phase 1: the spike the run monitors for a fetched series, the
\* latest event of detect_spikes if it is at most CUTOFF_DAYS old
MonitoredSpike(df, ticker) ==
    LET res == detect_spikes(df, ticker)
    IN  IF res.raised \/ res.events = <<>> THEN {}
        ELSE LET latest == CHOOSE e \in EventSet(res.events) :
                               \A o \in EventSet(res.events) : o.date <= e.date
             IN  IF latest.date >= df[Len(df)].date - CUTOFF_DAYS
                 THEN {latest} ELSE {}

\* the days without events that have passed since the fetched series ended
LaterDays == {0, CUTOFF_DAYS, CUTOFF_DAYS + 1}

RECURSIVE WithLaterDays(_, _)
WithLaterDays(df, n) ==
    IF n = 0 THEN df
    ELSE WithLaterDays(
             Append(df, QuietBar(IF df = <<>> THEN 10000 ELSE df[Len(df)].Close, 1,
                                 Len(df) + 1)),
             n - 1)

\* main() for one ticker, lines 158-211: the spike pass, the pass over the
\* open positions, and which checks the signal loop makes for the ticker
\* (an entry that fires is followed by the exit check as well)
spike_pass(df, ticker, has_position) ==
    LET raised == df # <<>> /\ detect_spikes(df, ticker).raised
        spikes == MonitoredSpike(df, ticker)
        monitored == ~raised /\ df # <<>> /\ (spikes # {} \/ has_position)
    IN  [raised |-> raised, spikes_by_ticker |-> spikes, monitored |-> monitored,
         entry_check |-> monitored /\ spikes # {} /\ ~has_position,
         exit_check |-> monitored /\ has_position]

SpikePass ==
    /\ s_call = NoSeriesCall
    /\ \E later \in LaterDays, has_position \in BOOLEAN :
          LET df == WithLaterDays(s_df, later)
          IN  s_call' = [op |-> "spike_pass", df |-> df,
                         has_position |-> has_position,
                         res |-> spike_pass(df, "AAAA", has_position)]
    /\ UNCHANGED s_df
    /\ UNCHANGED <<liveVars, engineVars, btVars>>

\* ---- src/data/ticker_list.py
\* what the IDX API can answer: a set of codes (sorted({...}) of the
\* records), possibly none; a failed request counts as none (line 47-49)
OnlineAnswers == SUBSET {"AAAA", "BBBB", "CCCC", "DDDD"}

\* the cache file: its codes, {} when it is missing or holds none
CsvFiles == SUBSET {"AAAA", "BBBB"}

\* fetch_idx_tickers_online(): [tickers, csv']; a non-empty answer is
\* written to the cache
fetch_idx_tickers_online(answer, csv) ==
    [tickers |-> answer, csv |-> IF answer # {} THEN answer ELSE csv]

\* load_tickers_from_csv()
load_tickers_from_csv(csv) == csv

\* get_idx_tickers(force_refresh): [steps, tickers, raised, csv'], steps
\* being the sources it consulted in order
get_idx_tickers(force_refresh, answer, csv) ==
    IF ~force_refresh /\ load_tickers_from_csv(csv) # {}
    THEN [steps |-> <<"csv">>, tickers |-> load_tickers_from_csv(csv),
          raised |-> FALSE, csv |-> csv]
    ELSE LET first == IF force_refresh THEN <<>> ELSE <<"csv">>
             online == fetch_idx_tickers_online(answer, csv)
         IN  IF online.tickers # {}
             THEN [steps |-> first \o <<"online">>, tickers |-> online.tickers,
                   raised |-> FALSE, csv |-> online.csv]
             ELSE IF load_tickers_from_csv(online.csv) # {}
             THEN [steps |-> first \o <<"online", "csv">>,
                   tickers |-> load_tickers_from_csv(online.csv),
                   raised |-> FALSE, csv |-> online.csv]
             ELSE [steps |-> first \o <<"online", "csv">>, tickers |-> {},
                   raised |-> TRUE, csv |-> online.csv]

\* one call; the cache file of a later call is what the earlier ones left
GetIdxTickers ==
    /\ s_call.op \in {"none", "tickers"}
    /\ \E force_refresh \in BOOLEAN, answer \in OnlineAnswers, shipped \in CsvFiles :
          LET csv == IF s_call.op = "tickers" THEN s_call.res.csv ELSE shipped
          IN  s_call' = [op |-> "tickers", force_refresh |-> force_refresh,
                         answer |-> answer, csv |-> csv,
                         res |-> get_idx_tickers(force_refresh, answer, csv)]
    /\ UNCHANGED s_df
    /\ UNCHANGED <<liveVars, engineVars, btVars>>

\* ---- src/backtest/optimizer.py
\* The trials are run, scored and compared by Backtest.optimize of
\* backtesting.py.  The statistics of a trial are values the library
\* returns; what it does with them is modelled by its documented contract.
OptMetrics == {"Equity Final [$]", "Win Rate [%]"}

\* the value of a statistic of a trial
OptScores == {1, 2}

\* param_ranges = {"tp_mode": [1, 2, 3]}: the combinations in the order
\* the search iterates over them
OptGridSeq == <<[tp_mode |-> BREAKOUT], [tp_mode |-> MA_BREAKDOWN], [tp_mode |-> TRAILING]>>

\* the grid of the search
OptGrid == {OptGridSeq[i] : i \in DOMAIN OptGridSeq}

\* max_tries: None for the full grid, or a budget of random combinations
OptTries == {None, 2}

\* the combinations Backtest.optimize evaluates: the grid, or max_tries of
\* them drawn at random
Sampled(grid, max_tries) ==
    IF max_tries = None \/ max_tries >= Cardinality(grid) THEN {grid}
    ELSE {S \in SUBSET grid : S # {} /\ Cardinality(S) <= max_tries}

\* the evaluated combinations in iteration order
IterationOrder(evaluated) == SelectSeq(OptGridSeq, LAMBDA q : q \in evaluated)

\* the positions of the trials no other trial beats
BestTrials(trials, order, maximize) ==
    {i \in DOMAIN order :
        \A j \in DOMAIN order :
            trials[order[j]][maximize] <= trials[order[i]][maximize]}

\* a selection that takes any of the best trials
Backtest_optimize_any(trials, order, maximize) ==
    {[stats |-> trials[order[i]], params |-> order[i]] :
        i \in BestTrials(trials, order, maximize)}

\* Backtest.optimize(maximize=...): the statistics and parameters of the
\* trial with the highest value of the statistic (heatmap.idxmax(): of
\* equal values the first in iteration order)
Backtest_optimize(trials, order, maximize) ==
    {[stats |-> trials[order[i]], params |-> order[i]] :
        i \in {i \in BestTrials(trials, order, maximize) :
                  \A j \in BestTrials(trials, order, maximize) : i <= j}}

\* a metric fixed in the call, as compare_tp_modes has it
KwargsMaximizeFixed(maximize) == "Equity Final [$]"

\* lines 86-88: kwargs["maximize"]
KwargsMaximize(maximize) == maximize

\* optimize(df, maximize=..., max_tries=..., param_ranges=...): what it
\* can return for the trials the library ran
optimize(trials, order, maximize) ==
    Backtest_optimize(trials, order, KwargsMaximize(maximize))

\* one call of optimize(); calls follow each other on the same series
Optimize ==
    /\ s_call.op \in {"none", "optimize", "compare"}
    /\ \E maximize \in OptMetrics, max_tries \in OptTries :
          \E evaluated \in Sampled(OptGrid, max_tries) :
              \E trials \in [evaluated -> [OptMetrics -> OptScores]] :
                  \E best \in optimize(trials, IterationOrder(evaluated), maximize) :
                      s_call' = [op |-> "optimize", maximize |-> maximize,
                                 max_tries |-> max_tries, trials |-> trials,
                                 order |-> IterationOrder(evaluated),
                                 stats |-> best.stats, params |-> best.params]
    /\ UNCHANGED s_df
    /\ UNCHANGED <<liveVars, engineVars, btVars>>

\* lines 67-76: the ranges optimize searches when param_ranges is not given
DefaultRanges ==
    [rvol_threshold |-> 3..10, retrace_pct |-> 1..8, ema_period |-> {5, 10, 20},
     sl_pct |-> 2..5, tp_mode |-> {BREAKOUT, MA_BREAKDOWN, TRAILING},
     trailing_pct |-> 1..5, mfi_min |-> {20, 30, 40, 50, 60},
     vol_window |-> {10, 15, 20, 30}]

\* lines 123-134: the keyword arguments of the bt.optimize call for one mode
CompareRanges(mode) ==
    [rvol_threshold |-> 3..10, retrace_pct |-> 1..8, ema_period |-> {5, 10, 20},
     sl_pct |-> 2..5, tp_mode |-> {mode},
     trailing_pct |-> 1..5, mfi_min |-> {20, 30, 40, 50, 60}]

\* for mode in (1, 2, 3)
CompareModes == <<BREAKOUT, MA_BREAKDOWN, TRAILING>>

\* compare_tp_modes(df): one optimisation per mode, one row per optimisation
CompareTpModes ==
    /\ s_call.op \in {"none", "optimize", "compare"}
    /\ \E stats \in [DOMAIN CompareModes -> [OptMetrics -> OptScores]] :
          s_call' = [op |-> "compare",
                     runs |-> [i \in DOMAIN CompareModes |->
                                 [ranges |-> CompareRanges(CompareModes[i]),
                                  maximize |-> "Equity Final [$]",
                                  max_tries |-> 200]],
                     rows |-> [i \in DOMAIN CompareModes |->
                                 [tp_mode |-> CompareModes[i], stats |-> stats[i]]]]
    /\ UNCHANGED s_df
    /\ UNCHANGED <<liveVars, engineVars, btVars>>

vars == <<liveVars, engineVars, btVars, seriesVars>>

Init == LiveInit /\ EngineIdle /\ BtIdle /\ SeriesIdle

Next == StartRun \/ ScanTicker \/ EndRun \/ AbortRun

Spec == Init /\ [][Next]_vars

EngineNext == EngineEntry \/ EngineExit

InitEngine == LiveIdle /\ EngineInit /\ BtIdle /\ SeriesIdle

SpecEngine == InitEngine /\ [][EngineNext]_vars

InitBT == LiveIdle /\ EngineIdle /\ BtInit /\ SeriesIdle

NextBT == BtBar

SpecBT == InitBT /\ [][NextBT]_vars

InitSink == SinkInit /\ EngineIdle /\ BtIdle /\ SeriesIdle

InitSeries == LiveIdle /\ EngineIdle /\ BtIdle /\ SeriesInit

NextSeries == DetectSpikes \/ Indicators \/ BtIndicators

SpecSeries == InitSeries /\ [][NextSeries]_vars

\* run_backtest.py: the series built from the fetched tickers, and the
\* replay of a fetched series by run_single()
InitReplay == LiveIdle /\ EngineIdle /\ BtIdle /\ SeriesInit

NextReplay == ReplaySeries \/ FetchAndConcat

SpecReplay == InitReplay /\ [][NextReplay]_vars

\* calls of scan_all() and latest_spikes() and the spike pass of the
\* intraday run on fetched series
InitScan == LiveIdle /\ EngineIdle /\ BtIdle /\ SeriesInit

NextScan == ScanAll \/ LatestSpikes \/ SpikePass

SpecScan == InitScan /\ [][NextScan]_vars

\* calls of get_idx_tickers()
InitTickers == LiveIdle /\ EngineIdle /\ BtIdle /\ SeriesIdle

NextTickers == GetIdxTickers

SpecTickers == InitTickers /\ [][NextTickers]_vars

\* calls of optimize() and compare_tp_modes()
InitOptimize == LiveIdle /\ EngineIdle /\ BtIdle /\ SeriesIdle

NextOptimize == Optimize \/ CompareTpModes

SpecOptimize == InitOptimize /\ [][NextOptimize]_vars

\* positions written to the table and read back
InitStore == LiveIdle /\ EngineIdle /\ BtIdle /\ SeriesIdle

NextStore == StoreSave \/ StoreLoad

SpecStore == InitStore /\ [][NextStore]_vars

NextSink == StartRun \/ ScanTickerSink \/ EndRun

SpecSink == InitSink /\ [][NextSink]_vars

\* ======================================================================
\* Properties of the intraday scan
\* ======================================================================

\* C1: a ticker has at most one stored ActivePosition, and for a ticker that
\* has a stored position when main() reaches its entry check, check_entry is
\* not evaluated and no ENTRY is emitted.
C1_OnePositionNoReentry ==
    /\ \A r1, r2 \in active_positions : r1.ticker = r2.ticker => r1 = r2
    /\ lastEval.hadPosition =>
          /\ ~lastEval.entryEvaluated
          /\ lastEval.entrySig = "NONE"
          /\ ~lastEval.entrySent

\* a ticker with an open position met a spike and a bar on which check_entry
\* would have returned ENTRY
C1_Witness ==
    /\ lastEval.hadPosition
    /\ lastEval.entryWould
    /\ ~lastEval.entryEvaluated

\* C3: in one evaluation of a ticker's latest bar an emitted ENTRY is never
\* followed by an emitted TAKE_PROFIT or STOP_LOSS for the same ticker and bar.
C3_OneSignalPerBar == ~(lastEval.entrySent /\ lastEval.exitSent)

\* C4: whenever check_exit yields TAKE_PROFIT or STOP_LOSS for an open
\* position, the position is no longer stored when the iteration ends.
C4_ExitRemovesPosition ==
    lastEval.exitSig \in {"TAKE_PROFIT", "STOP_LOSS"} => ~lastEval.stored

\* C5: in TRAILING mode the highest_since_entry that check_exit leaves for an
\* open position is never below the one it left at the previous evaluation of
\* that position.
C5_RatchetMonotone ==
    (tp_mode = TRAILING /\ lastEval.prevH # NaN) => lastEval.hAfter >= lastEval.prevH

\* C10: no two alerts handed to send_signal_alert have the same ticker,
\* signal kind and bar date.
C10_AlertAtMostOnce ==
    \A i, j \in 1..Len(alerts) : i # j => alerts[i] # alerts[j]

\* check_entry returned an ENTRY that was already in sent_signals and the
\* alert was held back
C10_Witness ==
    /\ lastEval.entrySig = "ENTRY"
    /\ ~lastEval.entrySent
    /\ Len(alerts) > 0

\* the alerts of the last loop iteration
EntryAlert ==
    [ticker |-> lastEval.ticker, signal_type |-> "ENTRY", date |-> lastEval.date]
ExitAlert ==
    [ticker |-> lastEval.ticker, signal_type |-> lastEval.exitSig,
     date |-> lastEval.date]

\* C11: an alert whose send failed is in sent_signals and was handed to
\* send_signal_alert exactly once; the failed ENTRY still created its position
\* and the failed exit still removed it.
C11_FailedSendNotRetried ==
    /\ \A k \in undelivered :
          /\ _already_sent(sent_signals, k.ticker, k.signal_type, k.date)
          /\ Cardinality({i \in 1..Len(alerts) : alerts[i] = k}) = 1
    /\ (lastEval.entrySent /\ EntryAlert \in undelivered) => lastEval.created
    /\ (lastEval.exitSent /\ ExitAlert \in undelivered) => ~lastEval.stored

\* a later evaluation returned the ENTRY whose send had failed, and the alert
\* was held back
C11_Witness ==
    /\ lastEval.entrySig = "ENTRY"
    /\ ~lastEval.entrySent
    /\ EntryAlert \in undelivered

\* ======================================================================
\* Properties of the signal engine
\* ======================================================================
ExitCall == e_call.op = "exit"
EntryFired == e_call.op = "entry" /\ e_call.sig.signal_type = "ENTRY"

\* the take-profit condition of the mode holds for the bar of the last call
TakeProfitHolds ==
    LET pos == e_call.pos[1]
        c == e_call.row.Close
        h == Max(pos.highest_since_entry, c)
    IN  \/ e_mode = BREAKOUT /\ c > pos.spike_event.high
        \/ e_mode = MA_BREAKDOWN /\ c > pos.entry_price
              /\ e_call.row.EMA # NaN /\ c < e_call.row.EMA
        \/ e_mode = TRAILING /\ c > pos.entry_price
              /\ c * 1000 < h * (1000 - e_call.trailing_x10)

\* C2: when the latest Close <= pos.sl_price check_exit returns STOP_LOSS,
\* whatever the mode; a TAKE_PROFIT is only returned when Close > pos.sl_price.
C2_StopLossFirst ==
    ExitCall =>
        LET pos == e_call.pos[1]
            c == e_call.row.Close
        IN  /\ c <= pos.sl_price => e_call.sig.signal_type = "STOP_LOSS"
            /\ e_call.sig.signal_type = "TAKE_PROFIT" => c > pos.sl_price

\* both the stop-loss and the mode's take-profit condition hold on the bar
C2_Witness ==
    /\ ExitCall
    /\ e_call.row.Close <= e_call.pos[1].sl_price
    /\ TakeProfitHolds
    /\ e_call.sig.signal_type = "STOP_LOSS"

\* C6: ENTRY is only returned on a true crossing: latest Close > latest EMA
\* and previous bar's Close <= previous bar's EMA.
C6_TrueCrossing ==
    EntryFired =>
        /\ e_call.row.Close > e_call.row.EMA
        /\ e_call.prev_close <= e_call.row.prev_EMA

\* C7: check_entry returns ENTRY only on a bar dated after the spike, and the
\* replay never places its buy on the bar on which it recorded the spike.
C7_EntryAfterSpike ==
    /\ EntryFired => e_call.row.date > e_call.spike.date
    /\ ~(bt_log.spiked /\ bt_log.bought)

\* C8: the stop-loss of every ENTRY signal, of the position opened from it
\* and of every buy order of the replay is strictly below the entry Close.
C8_StopBelowEntry ==
    /\ EntryFired =>
          /\ e_call.sig.sl_price < e_call.row.Close
          /\ e_pos[1].sl_price < e_pos[1].entry_price
    /\ bt_log.bought => bt_log.sl100 < bt_log.close * 100

\* the stop-loss of section 4.3, in hundredths of a tick
SpecStop100(pre, atr, close) ==
    LET raw == pre * 100 - Max(pre * SL_PCT, IF atr = NaN THEN 0 ELSE atr * 100)
    IN  IF raw < close * 100 THEN raw ELSE close * (100 - SL_PCT)

\* C9 as stated: the stop-loss fixed at entry equals
\* pre_spike_close - max(pre_spike_close*slPct/100, ATR) when that is below the
\* entry Close and Close*(1-slPct/100) otherwise.
C9_StopExact ==
    EntryFired =>
        e_call.sig.sl_price * 100 =
            SpecStop100(e_call.spike.prev_close, e_call.row.ATR, e_call.row.Close)

\* C9 as amended: the stop-loss fixed at entry is that value rounded to two
\* decimals, and a later Close at or below it yields STOP_LOSS at that Close.
C9_StopRounded ==
    /\ EntryFired =>
          /\ e_call.sig.sl_price =
                Round2(SpecStop100(e_call.spike.prev_close, e_call.row.ATR,
                                   e_call.row.Close))
          /\ e_pos[1].sl_price = e_call.sig.sl_price
    /\ (ExitCall /\ e_call.row.Close <= e_call.pos[1].sl_price) =>
          /\ e_call.sig.signal_type = "STOP_LOSS"
          /\ e_call.sig.price = e_call.row.Close

\* the example: pre-spike close 9100, ATR 50 give a stop of 8645, and a later
\* Close of 8500 yields STOP_LOSS at 8500
C9_Witness ==
    /\ ExitCall
    /\ e_call.spike.prev_close = 910000
    /\ e_call.pos[1].sl_price = 864500
    /\ e_call.row.Close = 850000
    /\ e_call.sig.signal_type = "STOP_LOSS"
    /\ e_call.sig.price = 850000

\* C12: in TRAILING mode, when the stop-loss does not fire, check_exit leaves
\* highest_since_entry = max(highest_since_entry, Close) in the position,
\* whether or not it returns a signal, and returns TAKE_PROFIT exactly when
\* Close > entry price and Close < highest_since_entry * (1 - trailingPct/100).
C12_TrailingExit ==
    (ExitCall /\ e_mode = TRAILING /\ e_call.row.Close > e_call.pos[1].sl_price) =>
        LET pos == e_call.pos[1]
            c == e_call.row.Close
            h == IF c > pos.highest_since_entry THEN c ELSE pos.highest_since_entry
        IN  /\ e_call.pos_after[1].highest_since_entry = h
            /\ e_call.sig.signal_type = "TAKE_PROFIT" <=>
                  (c > pos.entry_price /\ c * 1000 < h * (1000 - e_call.trailing_x10))
            /\ e_call.sig.signal_type \in {"TAKE_PROFIT", "NONE"}

\* the example: entry 9000, trailingPct 3, highest 9900, Close 9500 yields
\* TAKE_PROFIT
C12_Witness ==
    /\ ExitCall /\ e_mode = TRAILING
    /\ e_call.trailing_x10 = 30
    /\ e_call.pos[1].entry_price = 900000
    /\ e_call.pos[1].highest_since_entry = 990000
    /\ e_call.row.Close = 950000
    /\ e_call.sig.signal_type = "TAKE_PROFIT"

\* a trailing evaluation that raised the ratchet and returned no signal
C12_WitnessRatchet ==
    /\ ExitCall /\ e_mode = TRAILING
    /\ e_call.sig = NoSignal
    /\ e_call.pos_after[1].highest_since_entry > e_call.pos[1].highest_since_entry

\* C13: in MA_BREAKDOWN mode check_exit returns TAKE_PROFIT exactly when the
\* stop-loss did not fire, Close > entry price and Close < current EMA, and the
\* replay closes its position exactly when Close > entry price and
\* Close < EMA; neither exits on profit while Close <= entry price.
C13_MaBreakdownExit ==
    /\ (ExitCall /\ e_mode = MA_BREAKDOWN) =>
          LET pos == e_call.pos[1]
              c == e_call.row.Close
              tp == e_call.sig.signal_type = "TAKE_PROFIT"
          IN  /\ tp <=> /\ c > pos.sl_price
                        /\ c > pos.entry_price
                        /\ e_call.row.EMA # NaN /\ c < e_call.row.EMA
              /\ c <= pos.entry_price => ~tp
    /\ (~bt_log.flat /\ bt_params.tp_mode = MA_BREAKDOWN) =>
          /\ bt_log.closed <=> /\ bt_log.close > bt_log.entry_price
                               /\ bt_log.ema # NaN /\ bt_log.close < bt_log.ema
          /\ bt_log.close <= bt_log.entry_price => ~bt_log.closed

\* a bar in profit and below its EMA gave TAKE_PROFIT
C13_Witness ==
    /\ ExitCall /\ e_mode = MA_BREAKDOWN
    /\ e_call.row.Close > e_call.pos[1].entry_price
    /\ e_call.row.Close < e_call.row.EMA
    /\ e_call.sig.signal_type = "TAKE_PROFIT"

\* the replay closed a position in MA_BREAKDOWN mode
C13_WitnessReplay ==
    /\ ~bt_log.flat /\ bt_params.tp_mode = MA_BREAKDOWN /\ bt_log.closed

\* C14: in BREAKOUT mode check_exit returns TAKE_PROFIT exactly when the
\* stop-loss did not fire and Close > the high of the position's SpikeEvent,
\* and the replay closes its position exactly when Close > the spike high.
C14_BreakoutExit ==
    /\ (ExitCall /\ e_mode = BREAKOUT) =>
          LET pos == e_call.pos[1]
              c == e_call.row.Close
          IN  e_call.sig.signal_type = "TAKE_PROFIT" <=>
                  (c > pos.sl_price /\ c > pos.spike_event.high)
    /\ (~bt_log.flat /\ bt_params.tp_mode = BREAKOUT) =>
          (bt_log.closed <=>
              (bt_log.spike_high # NaN /\ bt_log.close > bt_log.spike_high))

\* a Close above the spike high gave TAKE_PROFIT
C14_Witness ==
    /\ ExitCall /\ e_mode = BREAKOUT
    /\ e_call.row.Close > e_call.pos[1].spike_event.high
    /\ e_call.sig.signal_type = "TAKE_PROFIT"

\* the replay closed a position in BREAKOUT mode
C14_WitnessReplay ==
    /\ ~bt_log.flat /\ bt_params.tp_mode = BREAKOUT /\ bt_log.closed

\* ======================================================================
\* Properties of the spike detector and of the indicator helpers
\* ======================================================================
DetectCall == s_call.op = "detect"

\* the prices of a Bar (section 3): every Close is positive
PositivePrices(df) == \A t \in 1..Len(df) : df[t].Close > 0

\* the six filters of section 4.2 on bar t
SixFilters(df, t) ==
    LET avg == compute_avg_txn_value(df, VOLUME_SMA_WINDOW)[t]
        rv == compute_rvol(Column(df, "Volume"), VOLUME_SMA_WINDOW)[t]
    IN  [price |-> df[t].Close >= MIN_PRICE,
         txn |-> avg # NaN /\ avg >= MIN_AVG_TXN_VALUE,
         rvol |-> rv # NaN /\ rv >= RVOL_THRESHOLD * 100,
         green |-> df[t].Close > df[t].Open,
         pos |-> /\ df[t].High # df[t].Low
                 /\ (df[t].Close - df[t].Low) * 100
                       >= PRICE_POSITION_MIN_PCT * (df[t].High - df[t].Low),
         rising |-> t > 1 /\ df[t].Close > df[t - 1].Close]

FailedFilters(df, t) == {f \in DOMAIN SixFilters(df, t) : ~SixFilters(df, t)[f]}
AllSix(df, t) == FailedFilters(df, t) = {}

EventDates(res) == {res.events[i].date : i \in 1..Len(res.events)}

\* C15: a spike with a pre-spike close of zero or less never makes
\* detect_spikes raise, never yields an ENTRY from check_entry and is never
\* bought by the replay.
C15_NonPositiveAnchorSafe ==
    /\ DetectCall => ~s_call.res.raised
    /\ (e_call.op = "entry" /\ e_call.spike.prev_close <= 0) => e_call.sig = NoSignal
    /\ bt_log.bought => bt_state._pre_spike_close > 0

\* the series with bar t replaced by a day of another kind after the same
\* previous close
Variants(df, t) ==
    {[df EXCEPT ![t] = TailBar(k, df[t - 1].Close, t)] : k \in TailKinds} \ {df}

\* bar t passes all six filters in df and fails exactly one of them in df2
FlipsOne(df, df2, t) ==
    AllSix(df, t) /\ Cardinality(FailedFilters(df2, t)) = 1

Changed(df, df2, t) ==
    {c \in {"Open", "High", "Low", "Close", "Volume"} : df[t][c] # df2[t][c]}

Without(events, d) == SelectSeq(events, LAMBDA e : e.date # d)

\* C16 as stated: no event is returned for a bar on which one of the six
\* filters is false, and making a single filter false for a qualifying bar
\* changes the result by exactly the removal of that bar's event.
C16_FilterFlipExact ==
    (DetectCall /\ PositivePrices(s_df)) =>
        /\ \A t \in EventDates(s_call.res) : AllSix(s_df, t)
        /\ \A t \in 2..Len(s_df) : \A df2 \in Variants(s_df, t) :
              (FlipsOne(s_df, df2, t) /\ PositivePrices(df2)) =>
                  detect_spikes(df2, "AAAA").events = Without(s_call.res.events, t)

\* C16 as amended: no event is returned for a bar on which one of the six
\* filters is false; making a single filter false for a qualifying bar removes
\* that bar's event, and the events of the other bars stay as they were when
\* only the bar's Open, High or Low was altered.
C16_FilterFlip ==
    (DetectCall /\ PositivePrices(s_df)) =>
        /\ \A t \in EventDates(s_call.res) : AllSix(s_df, t)
        /\ \A t \in 2..Len(s_df) : \A df2 \in Variants(s_df, t) :
              (FlipsOne(s_df, df2, t) /\ PositivePrices(df2)) =>
                  LET r2 == detect_spikes(df2, "AAAA")
                  IN  /\ t \notin EventDates(r2)
                      /\ Changed(s_df, df2, t) \subseteq {"Open", "High", "Low"} =>
                            r2.events = Without(s_call.res.events, t)

\* a bar lost its event through a lower Volume, and so did the next bar,
\* whose average transaction value fell with it
C16_Witness ==
    /\ DetectCall /\ PositivePrices(s_df)
    /\ \E t \in EventDates(s_call.res) : \E df2 \in Variants(s_df, t) :
          /\ FlipsOne(s_df, df2, t)
          /\ Changed(s_df, df2, t) = {"Volume"}
          /\ t \notin EventDates(detect_spikes(df2, "AAAA"))
          /\ t + 1 \in EventDates(s_call.res)
          /\ t + 1 \notin EventDates(detect_spikes(df2, "AAAA"))

\* a bar lost its event through a lower Volume, and the next bar, whose RVOL
\* rose with it, gained one
C16_WitnessGained ==
    /\ DetectCall /\ PositivePrices(s_df)
    /\ \E t \in EventDates(s_call.res) : \E df2 \in Variants(s_df, t) :
          /\ FlipsOne(s_df, df2, t)
          /\ Changed(s_df, df2, t) = {"Volume"}
          /\ t \notin EventDates(detect_spikes(df2, "AAAA"))
          /\ t + 1 \in EventDates(detect_spikes(df2, "AAAA"))
          /\ t + 1 \notin EventDates(s_call.res)

\* a bar lost its event through a higher Open, and nothing else changed
C16_WitnessOpen ==
    /\ DetectCall /\ PositivePrices(s_df)
    /\ Len(s_call.res.events) = 2
    /\ \E t \in EventDates(s_call.res) : \E df2 \in Variants(s_df, t) :
          /\ FlipsOne(s_df, df2, t)
          /\ Changed(s_df, df2, t) = {"Open"}
          /\ detect_spikes(df2, "AAAA").events = Without(s_call.res.events, t)

\* one SpikeEvent per bar that passes all six filters, in date order, with
\* the Close of the bar before as prev_close
ExpectedEvents(df) ==
    LET idx == SelectSeq([t \in 1..Len(df) |-> t], LAMBDA t : AllSix(df, t))
    IN  [i \in 1..Len(idx) |->
            SpikeEvent("AAAA", df[idx[i]].date, df[idx[i]].Close,
                       df[idx[i] - 1].Close, df[idx[i]].High)]

C18_WitnessEntry ==
    /\ e_call.op = "entry"
    /\ e_call.row.MFI = NaN
    /\ e_call.row.date > e_call.spike.date
    /\ _is_near_entry(e_call.row.Close, e_call.spike.prev_close, RETRACE_PCT)
    /\ _ema_reclaim(e_call.row)
    /\ e_call.sig = NoSignal

\* C19: RVOL over a window of zero volume, the price-position of a bar with
\* High = Low and the MFI over a window without negative money flow are not
\* available, in the screener's helpers and in the replay's.
C19_ZeroDivisionUnavailable ==
    /\ s_call.op = "indicators" =>
          \A t \in 1..Len(s_df) :
              /\ (/\ t >= VOLUME_SMA_WINDOW
                  /\ SumRange(Column(s_df, "Volume"), t - VOLUME_SMA_WINDOW + 1, t) = 0)
                    => s_call.rvol[t] = NaN
              /\ s_df[t].High = s_df[t].Low => s_call.price_pos[t] = NaN
    /\ s_call.op = "bt_init" =>
          \A t \in 1..Len(s_df) :
              /\ (/\ t >= s_call.vol_window
                  /\ SumRange(Column(s_df, "Volume"), t - s_call.vol_window + 1, t) = 0)
                    => s_call.rvol[t] = NaN
              /\ s_df[t].High = s_df[t].Low => s_call.pp[t] = NaN
              /\ (/\ t >= BT_MFI_WINDOW
                  /\ SumRange(NegFlow(s_df), t - BT_MFI_WINDOW + 1, t) = 0)
                    => s_call.mfi[t] = NaN

\* the last MFI window holds positive money flow and no negative one
C19_Witness ==
    /\ s_call.op = "bt_init"
    /\ Len(s_df) >= BT_MFI_WINDOW
    /\ SumRange(NegFlow(s_df), Len(s_df) - BT_MFI_WINDOW + 1, Len(s_df)) = 0
    /\ SumRange(PosFlow(s_df), Len(s_df) - BT_MFI_WINDOW + 1, Len(s_df)) > 0
    /\ s_call.mfi[Len(s_df)] = NaN

\* C20: on a series shorter than the volume window of the screener no
\* windowed indicator is available on any bar: RVOL, the average transaction
\* value, and the RVOL, SMA and ATR of the replay; each of them is not
\* available either on a series shorter than its own window; and detect_spikes
\* returns an empty list without raising for a series of fewer than window + 1
\* bars, the empty one included.
C20_ShortSeries ==
    /\ (s_call.op = "indicators" /\ Len(s_df) < VOLUME_SMA_WINDOW) =>
          \A t \in 1..Len(s_df) : s_call.rvol[t] = NaN /\ s_call.avg_txn[t] = NaN
    /\ (s_call.op = "bt_init" /\ Len(s_df) < VOLUME_SMA_WINDOW) =>
          \A t \in 1..Len(s_df) :
              s_call.rvol[t] = NaN /\ s_call.sma[t] = NaN /\ s_call.atr[t] = NaN
    /\ (s_call.op = "bt_init" /\ Len(s_df) < s_call.vol_window) =>
          \A t \in 1..Len(s_df) : s_call.rvol[t] = NaN /\ s_call.sma[t] = NaN
    /\ (s_call.op = "bt_init" /\ Len(s_df) < BT_ATR_WINDOW) =>
          \A t \in 1..Len(s_df) : s_call.atr[t] = NaN
    /\ (DetectCall /\ Len(s_df) < VOLUME_SMA_WINDOW + 1) =>
          ~s_call.res.raised /\ s_call.res.events = <<>>

\* a series one bar short of the window whose last day has volume: no
\* indicator of the replay on any bar
C20_Witness ==
    /\ s_call.op = "bt_init"
    /\ Len(s_df) = VOLUME_SMA_WINDOW - 1
    /\ s_df[Len(s_df)].Volume > 0
    /\ \A t \in 1..Len(s_df) :
          s_call.rvol[t] = NaN /\ s_call.sma[t] = NaN /\ s_call.atr[t] = NaN

\* the same for the screener's columns
C20_WitnessScreener ==
    /\ s_call.op = "indicators"
    /\ Len(s_df) = VOLUME_SMA_WINDOW - 1
    /\ s_df[Len(s_df)].Volume > 0
    /\ \A t \in 1..Len(s_df) : s_call.rvol[t] = NaN /\ s_call.avg_txn[t] = NaN

\* detect_spikes on the empty series, and on one of exactly window bars
C20_WitnessEmpty ==
    DetectCall /\ s_df = <<>> /\ s_call.res = [raised |-> FALSE, events |-> <<>>]

C20_WitnessWindow ==
    /\ DetectCall /\ Len(s_df) = VOLUME_SMA_WINDOW
    /\ s_call.res = [raised |-> FALSE, events |-> <<>>]

\* ======================================================================
\* Properties of the replay
\* ======================================================================
\* C21: the replay places a buy only on a bar on which it holds no position,
\* records a spike and evaluates an entry only on such a bar, and a buy order
\* is never pending while a trade is open.
C21_OnePositionInReplay ==
    /\ bt_log.bought => bt_log.flat
    /\ bt_log.spiked => bt_log.flat
    /\ bt_broker.order.kind = "buy" => ~bt_broker.trade.open

\* a bar that meets the spike conditions arrived while the trade was open,
\* and next() recorded no spike and placed no buy
C21_Witness ==
    /\ bt_broker.trade.open
    /\ ~bt_log.flat
    /\ bt_log.spike_bar
    /\ ~bt_log.spiked /\ ~bt_log.bought
    /\ bt_broker.order.kind # "buy"

\* ---- Properties of the replay of a series
ReplayCall == s_call.op = "replay"

\* the calls of next() in the recorded replay
CalledBars == {t \in 1..Len(s_df) : s_call.trace[t].called}

C22_WitnessLater ==
    /\ ReplayCall
    /\ \E k \in CalledBars :
          /\ k < Len(s_df)
          /\ ~s_call.trace[k].log.spiked
          /\ s_call.trace[k + 1].log.spiked

\* the replay runs with the screener's RVOL threshold and volume window
SameThresholds ==
    /\ s_call.p.rvol_threshold = RVOL_THRESHOLD
    /\ s_call.p.vol_window = VOLUME_SMA_WINDOW
    /\ BT_PP_MIN_PCT = PRICE_POSITION_MIN_PCT

\* C25: under the same thresholds, every bar the replay records as a spike
\* passes the six qualifying filters of detect_spikes.
C25_ReplaySpikeQualifies ==
    (ReplayCall /\ SameThresholds) =>
        \A t \in CalledBars :
            s_call.trace[t].log.spiked => AllSix(s_df, t)

\* on a bar that both implementations take as a spike, both anchors are the
\* Close of the bar before it
SameSpikeBarAnchor ==
    \A t \in CalledBars :
        \A e \in EventSet(detect_spikes(s_df, "AAAA").events) :
            (s_call.trace[t].log.spiked /\ e.date = s_df[t].date) =>
                /\ t > 1
                /\ e.prev_close = s_df[t - 1].Close
                /\ s_call.trace[t].state._pre_spike_close = s_df[t - 1].Close

\* on a bar where the replay buys, its anchor is the anchor of the spike the
\* intraday run monitors on that bar
EntryAnchorIsLive ==
    \A t \in CalledBars :
        s_call.trace[t].log.bought =>
            \E e \in MonitoredSpike(SubSeq(s_df, 1, t), "AAAA") :
                e.prev_close = s_call.trace[t].state._pre_spike_close

\* C26: for the same series and spike bar SpikeEvent.prev_close equals
\* _pre_spike_close, both the Close of the bar before the spike bar, and the
\* anchor the replay enters on is the one of the spike the live engine would
\* use on that bar.
C26_SameAnchor ==
    (ReplayCall /\ SameThresholds) => (SameSpikeBarAnchor /\ EntryAnchorIsLive)

\* a bar both implementations take as a spike
BothSpike ==
    /\ ReplayCall /\ SameThresholds
    /\ \E t \in CalledBars :
          /\ s_call.trace[t].log.spiked
          /\ \E e \in EventSet(detect_spikes(s_df, "AAAA").events) :
                e.date = s_df[t].date

\* ---- The stop of the replay
\* C24: the replay closes a position by stop-loss exactly on the bars where
\* Close <= the stop-loss price, as check_exit does, and a bar that is
\* stopped takes no take-profit decision.
C24_StopOnClose ==
    bt_log.stop100 # None =>
        /\ bt_log.stopped <=> bt_log.close * 100 <= bt_log.stop100
        /\ bt_log.stopped => ~bt_log.closed

\* ---- The series of run_backtest.py
\* C23: the series handed to the optimizer is the series of one ticker with
\* strictly increasing dates, whatever tickers are given.
C23_OneTickerSeries ==
    (s_call.op = "concat" /\ ~s_call.exit) =>
        /\ \A i, j \in 1..Len(s_call.df) : s_call.df[i].of = s_call.df[j].of
        /\ \A i \in 1..(Len(s_call.df) - 1) :
              s_call.df[i].bar.date < s_call.df[i + 1].bar.date

\* ---- Properties of the stored positions
\* == of two Python numbers: the values are equal, whatever the kinds
NumberEq(a, b) ==
    IF a.ty = "None" \/ b.ty = "None" THEN a.ty = b.ty
    ELSE a.v # NaN /\ b.v # NaN /\ a.v = b.v

\* == of two Timestamps: both naive or both aware, and the same instant
TimestampEq(a, b) ==
    /\ (a.tz = "naive") <=> (b.tz = "naive")
    /\ a.day * 1440 - UtcOffset(a.tz) = b.day * 1440 - UtcOffset(b.tz)

SpikeEq(a, b) ==
    /\ DOMAIN a = DOMAIN b
    /\ a.ticker = b.ticker
    /\ TimestampEq(a.date, b.date)
    /\ \A f \in SpikeNumberFields : NumberEq(a[f], b[f])

PositionEq(a, b) ==
    /\ a.ticker = b.ticker
    /\ TimestampEq(a.entry_date, b.entry_date)
    /\ NumberEq(a.entry_price, b.entry_price)
    /\ SpikeEq(a.spike_event, b.spike_event)
    /\ NumberEq(a.sl_price, b.sl_price)
    /\ NumberEq(a.tp_price, b.tp_price)
    /\ NumberEq(a.highest_since_entry, b.highest_since_entry)

\* C27: the positions read back by _load_positions are, ticker by ticker
\* and field by field, equal to the positions last saved.
C27_RoundTrip ==
    s_call.op = "load" =>
        /\ DOMAIN s_call.res = DOMAIN positions
        /\ \A t \in DOMAIN positions : PositionEq(s_call.res[t], positions[t])

\* read back: a position in the exchange's zone with a null tp_price and
\* the int stop 0, beside a second ticker's position
C27_Witness ==
    /\ s_call.op = "load"
    /\ DOMAIN positions = Tickers
    /\ \E t \in Tickers :
          /\ positions[t].entry_date.tz = "Asia/Jakarta"
          /\ positions[t].tp_price = PyNone
          /\ s_call.res[t].tp_price = PyNone
          /\ positions[t].sl_price = PyInt(0)
          /\ s_call.res[t].sl_price = PyFloat(0)
          /\ s_call.res[t].entry_date.tz = "+07:00"
          /\ s_call.res[t].spike_event.volume = PyInt(100000)

\* ---- Properties of one run over several tickers
\* the step of main() for the next ticker, whose fetch came back empty
EmptyFetchStep ==
    /\ pc = "scan" /\ todo # <<>>
    /\ lastEval'.ticker = Head(todo)
    /\ lastEval'.date = None
    /\ todo' # todo

OwnPart(s, ticker) ==
    [rows |-> {r \in s.rows : r.ticker = ticker},
     dict |-> IF ticker \in DOMAIN s.dict THEN {s.dict[ticker]} ELSE {},
     sent |-> SelectSeq(s.sent, LAMBDA r : r.ticker = ticker),
     alerts |-> SelectSeq(s.alerts, LAMBDA r : r.ticker = ticker)]

\* every assignment of provider results to the tickers
AllRunInputs ==
    {inp \in [Tickers -> UNION {RunInputs(t, today) : t \in Tickers}] :
        \A t \in Tickers : inp[t] \in RunInputs(t, today)}

RunStart == pc = "scan" /\ todo = TickerOrder

\* what a run does for a ticker depends only on that ticker's inputs
OwnInputsOnly ==
    \A t \in Tickers : \A inp \in AllRunInputs : \A other \in AllRunInputs :
        inp[t] = other[t] =>
            OwnPart(main_run(Stores, TickerOrder, inp), t)
                = OwnPart(main_run(Stores, TickerOrder, other), t)

\* the order of the tickers does not matter for the table and the set of
\* sent signals
AnyOrder ==
    \A inp \in AllRunInputs :
        LET ab == main_run(Stores, TickerOrder, inp)
            ba == main_run(Stores, <<TickerOrder[2], TickerOrder[1]>>, inp)
        IN  /\ ab.rows = ba.rows
            /\ {ab.sent[i] : i \in 1..Len(ab.sent)}
                  = {ba.sent[i] : i \in 1..Len(ba.sent)}

\* C28: within one run there is no cross-ticker interaction: what is sent
\* and stored for a ticker depends only on that ticker's bars, position and
\* sent-log entries, and any order of the tickers gives the same table and
\* the same set of sent signals.
C28_NoCrossTicker == RunStart => (OwnInputsOnly /\ AnyOrder)

\* ---- Properties of the optimizer
\* C30: optimize returns the statistics and the parameter set of one of the
\* trials it evaluated, and no evaluated trial has a higher value of the
\* chosen metric.
C30_ReturnsBestTrial ==
    s_call.op = "optimize" =>
        /\ s_call.params \in DOMAIN s_call.trials
        /\ s_call.stats = s_call.trials[s_call.params]
        /\ \A q \in DOMAIN s_call.trials :
              s_call.trials[q][s_call.maximize] <= s_call.stats[s_call.maximize]

\* a sampled search by win rate that returns a trial another evaluated
\* trial beats on final equity
C30_Witness ==
    /\ s_call.op = "optimize"
    /\ s_call.maximize = "Win Rate [%]"
    /\ s_call.max_tries # None
    /\ Cardinality(DOMAIN s_call.trials) < Cardinality(OptGrid)
    /\ \E q \in DOMAIN s_call.trials :
          /\ s_call.trials[q]["Win Rate [%]"] < s_call.stats["Win Rate [%]"]
          /\ s_call.trials[q]["Equity Final [$]"] > s_call.stats["Equity Final [$]"]

ThreeRunsOnePerMode ==
    s_call.op = "compare" =>
        /\ Len(s_call.runs) = 3
        /\ {s_call.runs[i].ranges.tp_mode : i \in DOMAIN s_call.runs}
              = {{BREAKOUT}, {MA_BREAKDOWN}, {TRAILING}}

\* the parameters other than tp_mode that optimize searches by default
OtherParameters == DOMAIN DefaultRanges \ {"tp_mode"}

\* in run i parameter k is searched over optimize's default range
SearchedAsDefault(i, k) ==
    /\ k \in DOMAIN s_call.runs[i].ranges
    /\ s_call.runs[i].ranges[k] = DefaultRanges[k]

\* C32: compare_tp_modes runs three optimisations, one per take-profit
\* mode, and each of them searches every other parameter (vol_window
\* included) over the range optimize uses by default.
C32_CompareUsesDefaultRanges ==
    /\ ThreeRunsOnePerMode
    /\ s_call.op = "compare" =>
          \A i \in DOMAIN s_call.runs : \A k \in OtherParameters :
              SearchedAsDefault(i, k)

\* ---- Properties of the cross-ticker scans
ScanCall == s_call.op \in {"scan_all", "latest_spikes"}

\* the events detect_spikes finds for the tickers of the call, with their
\* rvol; for latest_spikes those dated within lookback_days of the latest
\* bar of their own ticker
ExpectedOfScan ==
    UNION {{x \in EventSet(WithRvol(s_call.data[t],
                                    detect_spikes(s_call.data[t], t).events)) :
               s_call.op = "latest_spikes" =>
                   x.event.date >= s_call.data[t][Len(s_call.data[t])].date
                                       - s_call.lookback_days} :
           t \in EventSet(s_call.order)}

\* C33: a call of scan_all that returns, returns every detected event of
\* every ticker once, and a call of latest_spikes those detected events that
\* are dated within lookback_days of the latest bar of their own ticker,
\* both in descending order of rvol.
C33_ScansSortedByRvol ==
    (ScanCall /\ ~s_call.res.raised) =>
        /\ EventSet(s_call.res.list) = ExpectedOfScan
        /\ Len(s_call.res.list) = Cardinality(ExpectedOfScan)
        /\ \A i, j \in 1..Len(s_call.res.list) :
              i < j => s_call.res.list[i].rvol >= s_call.res.list[j].rvol

\* latest_spikes over two tickers whose latest bars differ in date: it
\* keeps an event of each, drops an older event, and puts the second
\* ticker's event first
C33_Witness ==
    /\ s_call.op = "latest_spikes"
    /\ ~s_call.res.raised
    /\ s_call.order = <<"AAAA", "BBBB">>
    /\ Len(s_call.data["AAAA"]) > Len(s_call.data["BBBB"])
    /\ Len(s_call.res.list) >= 2
    /\ s_call.res.list[1].event.ticker = "BBBB"
    /\ s_call.res.list[1].rvol > s_call.res.list[2].rvol
    /\ \E t \in EventSet(s_call.order) :
          Len(detect_spikes(s_call.data[t], t).events) = 2
          /\ Cardinality({x \in EventSet(s_call.res.list) : x.event.ticker = t}) = 1
    /\ \E x \in EventSet(s_call.res.list) : x.event.ticker = "AAAA"

\* scan_all over two tickers with events of different rvol, the larger
\* one found in the second ticker
C33_WitnessScanAll ==
    /\ s_call.op = "scan_all"
    /\ ~s_call.res.raised
    /\ s_call.order = <<"AAAA", "BBBB">>
    /\ Len(s_call.res.list) >= 3
    /\ s_call.res.list[1].event.ticker = "BBBB"
    /\ s_call.res.list[2].event.ticker = "AAAA"
    /\ s_call.res.list[1].rvol > s_call.res.list[2].rvol

\* ---- Properties of the ticker list
TickersCall == s_call.op = "tickers"

\* the online API is the first source consulted
OnlineFirst == TickersCall => s_call.res.steps[1] = "online"

\* the cache is read only after an online fetch without tickers
CsvOnlyAsFallback ==
    TickersCall =>
        \A i \in DOMAIN s_call.res.steps :
            s_call.res.steps[i] = "csv" =>
                /\ i > 1 /\ s_call.res.steps[i - 1] = "online"
                /\ s_call.answer = {}

\* RuntimeError only when neither source has tickers
RaisesOnlyWithoutTickers ==
    (TickersCall /\ s_call.res.raised) => (s_call.answer = {} /\ s_call.csv = {})

\* C34: get_idx_tickers consults the online API first, reads the CSV cache
\* only when the online fetch gave no tickers, and raises RuntimeError only
\* when both gave none.
C34_OnlineFirstCsvFallback ==
    OnlineFirst /\ CsvOnlyAsFallback /\ RaisesOnlyWithoutTickers

\* ---- Frame of check_exit
\* two positions that differ at most in highest_since_entry
SameButHighest(a, b) ==
    [a EXCEPT !.highest_since_entry = b.highest_since_entry] = b

\* C35: a call of check_exit leaves the position as it was except for
\* highest_since_entry, leaves it entirely unchanged in BREAKOUT and
\* MA_BREAKDOWN mode and whenever the stop-loss fires, and the position the
\* next call sees is the one this call left.
C35_ExitKeepsPosition ==
    [][e_call'.op = "exit" =>
          /\ e_call'.pos = e_pos
          /\ SameButHighest(e_pos[1], e_call'.pos_after[1])
          /\ (e_mode \in {BREAKOUT, MA_BREAKDOWN}
               \/ e_call'.sig.signal_type = "STOP_LOSS")
              => e_call'.pos_after = e_pos
          /\ e_pos' # <<>> => e_pos' = e_call'.pos_after]_vars

\* a second call in TRAILING mode on a position whose peak the first call
\* had raised, which raises it again and gives no signal
C35_Witness ==
    /\ e_call.op = "exit"
    /\ e_mode = TRAILING
    /\ e_n = MaxCalls
    /\ e_call.sig = NoSignal
    /\ e_call.pos_after[1].highest_since_entry > e_call.pos[1].highest_since_entry
    /\ e_call.pos[1].highest_since_entry > e_call.pos[1].entry_price
    /\ e_call.pos_after[1].sl_price = e_call.pos[1].sl_price

\* ---- Spike state after a close in the replay
\* next() is evaluated flat on the coming bar, the position having been
\* closed since the previous call: by the take-profit of that call, or by
\* the stop-loss of the buy order during the coming bar
FlatAfterClose ==
    bt_log'.flat /\ (bt_log.closed \/ bt_log'.stopped)

\* C36: when next() is evaluated flat after a position was closed, by a
\* take-profit branch or by the stop-loss, the spike state it starts from is
\* the cleared one, so a buy on that bar comes with a spike detected on it.
C36_SpikeStateCleared ==
    [][FlatAfterClose =>
          /\ bt_state = _reset
          /\ bt_log'.bought => bt_log'.spiked]_vars

\* ---- The spike the live flow monitors
SpikePassCall == s_call.op = "spike_pass" /\ ~s_call.res.raised

\* the events detect_spikes finds in the series of the call
DetectedEvents == EventSet(detect_spikes(s_call.df, "AAAA").events)

\* C37: the spike main() keeps for a ticker is the most recent event
\* detect_spikes finds for it; the ticker is checked for entry only if that
\* event is dated within 10 days of the latest bar; and a ticker with an
\* open position and data is checked for exit whether or not it has such a
\* spike.
C37_LatestSpikeWithinCutoff ==
    SpikePassCall =>
        /\ \A sp \in s_call.res.spikes_by_ticker :
              /\ sp \in DetectedEvents
              /\ \A e \in DetectedEvents : e.date <= sp.date
        /\ s_call.res.entry_check =>
              \E sp \in s_call.res.spikes_by_ticker :
                  sp.date + 10 >= s_call.df[Len(s_call.df)].date
        /\ (s_call.has_position /\ s_call.df # <<>>) => s_call.res.exit_check

\* a ticker with two events whose later one is exactly 10 days old: it is
\* checked for entry with the later one
C37_Witness ==
    /\ SpikePassCall
    /\ s_call.res.entry_check
    /\ Cardinality(DetectedEvents) = 2
    /\ \E sp \in s_call.res.spikes_by_ticker :
          sp.date + 10 = s_call.df[Len(s_call.df)].date

\* a ticker whose only events are 11 days old: no entry check, and with an
\* open position it is still checked for exit
C37_WitnessStale ==
    /\ SpikePassCall
    /\ DetectedEvents # {}
    /\ s_call.res.spikes_by_ticker = {}
    /\ ~s_call.res.entry_check
    /\ s_call.has_position
    /\ s_call.res.exit_check

\* ---- Stored positions and the log of sent signals
\* C38: every row of active_positions has a sent_signals record of kind
\* ENTRY for the same ticker whose date is the row's entry_date.
C38_StoredAfterEntrySent ==
    \A r \in active_positions :
        \E i \in 1..Len(sent_signals) :
            /\ sent_signals[i].ticker = r.ticker
            /\ sent_signals[i].signal_type = "ENTRY"
            /\ sent_signals[i].date = r.entry_date

\* a later run: a position entered in an earlier run is still stored, after
\* another position was entered and left again in between
C38_Witness ==
    /\ runs >= 2
    /\ \E r \in active_positions : r.entry_date < today
    /\ \E i, j \in 1..Len(sent_signals) :
          /\ i < j
          /\ sent_signals[i].signal_type = "ENTRY"
          /\ sent_signals[j].signal_type # "ENTRY"
          /\ sent_signals[i].ticker = sent_signals[j].ticker
          /\ \A r \in active_positions : r.ticker # sent_signals[i].ticker
====
